---- MODULE Spec2Model ----
(***************************************************************************)
(* A model of gemini-cli-rs: the OAuth2 device-authorization flow          *)
(* (auth.rs, device_login), the token lifecycle (auth.rs, is_valid_for /   *)
(* refresh_if_needed), the token file (auth.rs, load_token /               *)
(* save_token_atomic), the SSE parser (provider/google.rs, SseParser), the *)
(* streams of the two providers (provider/google.rs and provider/stub.rs,  *)
(* stream_chat), the choice of credentials (app.rs, build_provider), the   *)
(* interactive UI (tui.rs, run_tui) and the MCP servers (mcp/mod.rs,       *)
(* cmd_mcp; mcp/stdio.rs, list_tools).                                     *)
(*                                                                         *)
(* Time is counted in whole seconds.  An Option<T> of the source is a      *)
(* sequence of length 0 (None) or 1 (Some(v)).                             *)
(***************************************************************************)
EXTENDS Integers, Sequences, FiniteSets, TLC

VARIABLES
    now,            \* the wall clock, seconds (SystemTime::now / now_secs)
    http_log,       \* the requests sent through the reqwest client, in order
    dl_pc,          \* device_login: position of the task
    dl_dc_reply,    \* the reply to the device-code request (Option)
    dl_dc,          \* device_login: dc, the parsed DeviceCodeResponse (Option)
    dl_out,         \* device_login: the lines written to `out`
    dl_expires_at,  \* device_login: expires_at
    poll_interval,  \* device_login: poll_interval
    dl_last_sleep,  \* length of the latest tokio::time::sleep (0: none yet)
    dl_prev_sleep,  \* length of the sleep before the latest (0: none)
    dl_last_reply,  \* the reply to the latest token request (Option)
    dl_result,      \* device_login: the value returned
    rf_pc,          \* refresh_if_needed: position of the task
    rf_token,       \* refresh_if_needed: the argument `token`
    rf_valid,       \* refresh_if_needed: what is_valid_for returned (Option)
    rf_checked_at,  \* the clock when is_valid_for read it
    rf_log0,        \* Len(http_log) when refresh_if_needed was entered
    rf_calls,       \* how many times refresh_if_needed has been entered
    rf_reply,       \* the reply to the refresh request of this call (Option)
    rf_result,      \* refresh_if_needed: the value returned
    fs_dir,         \* the state directory: path -> inode (0: no such file)
    fs_data,        \* the content of each inode, a sequence of chunks
    st_prev,        \* the content of the token path before any save (Option)
    wr_pc,          \* save_token_atomic: position of each writer
    wr_tok,         \* save_token_atomic: the token each writer saves
    wr_fd,          \* the inode each writer has open for writing (0: none)
    wr_off,         \* the file offset of each writer, in chunks
    wr_result,      \* save_token_atomic: what each writer returned
    wr_last,        \* the writer whose rename succeeded last (0: none)
    rd_pc,          \* load_token: position of the reader
    rd_fd,          \* the inode the reader has open (0: none)
    rd_after,       \* the writers that had returned Ok when the reader opened
    rd_io,          \* how std::fs::read went: "none", "ok", "not_found", "other"
    rd_bytes,       \* the content std::fs::read returned
    rd_result,      \* load_token: the value returned
    stream,         \* the lines of the response body, as indices of SseLines
    fed,            \* how many bytes of the body SseParser::push has been given
    cut,            \* where the latest fragment began: "line", "event", "cr", "inside"
    buf,            \* SseParser: buf
    cur_data,       \* SseParser: cur_data
    events,         \* what the calls of SseParser::push returned, in order
    br_provider,    \* the provider stream_chat is called on: "google" or "stub"
    br_auth,        \* GoogleProvider: auth
    br_req,         \* stream_chat: the ChatRequest
    br_reply,       \* the reply to the request of stream_chat (Option)
    br_result,      \* stream_chat: the value returned
    br_pc,          \* the background task: its position ("none": not spawned)
    br_parser,      \* the background task: parser
    br_pending,     \* the events of the latest parser.push not yet handled
    br_stub_i,      \* the stub's task: how many of its parts it has sent
    br_failed,      \* how many sends of the task have failed
    br_queue,       \* the items in the channel
    br_rx,          \* the receiver: "none", "open" or "dropped"
    br_got,         \* the items the consumer has received, in order
    br_end,         \* the consumer has been told that the sequence is over
    wire_docs,      \* how many data events with text the server has sent
    wire_at,        \* the body so far: "closed", "event", "head" (in an event), "tail"
                    \* (in its last line), "ended", "failed"
    wire_buf,       \* what the server has sent and the task has not yet taken (Option)
    bp_pc,          \* build_provider: position
    bp_env,         \* the environment variables GEMINI_API_KEY, GEMINI_OAUTH_CLIENT_ID
    bp_cfg,         \* build_provider: cfg, the values of config.toml
    bp_result,      \* build_provider: the value returned
    tui_pc,         \* run_tui: position ("off": not running)
    tui_raw,        \* the terminal is in raw mode
    tui_alt,        \* the terminal shows the alternate screen
    tui_res,        \* run_tui: the value returned ("none": not yet)
    tui_input,      \* run_tui: input, the words typed
    tui_lines,      \* run_tui: lines
    tui_model,      \* run_tui: model
    active_stream,  \* run_tui: active_stream, the number of its stream (Option)
    tui_reqs,       \* the requests stream_chat was called with, in order
    tui_chans,      \* for each stream started: the messages in its channel, the
                    \* forwarding task and the items its provider stream still has
    tui_enters,     \* how many times Enter was pressed
    mcp_file,       \* the servers of the MCP servers file (None: no file)
    mcp_cmd,        \* the latest mcp command (Option)
    mcp_result,     \* cmd_mcp: the value returned by the latest command
    lt_pc,          \* list_tools: position ("off": not running)
    lt_result,      \* list_tools: the value returned
    rq_pc,          \* StdioRpc::request: position ("idle": not in a call)
    rq_id,          \* StdioRpc::request: id
    rq_result,      \* StdioRpc::request: the value returned by the latest call
    next_id,        \* StdioRpc: next_id
    rpc_sent,       \* the requests written to the server's stdin, in order
    rpc_pipe,       \* the messages on the server's stdout not yet read
    rpc_open,       \* the server has not closed its stdout
    rpc_read        \* the messages read, in order, with the id of the reading call

envVars == <<now, http_log>>
loginVars == <<dl_pc, dl_dc_reply, dl_dc, dl_out, dl_expires_at, poll_interval,
               dl_last_sleep, dl_prev_sleep, dl_last_reply, dl_result>>
refreshVars == <<rf_pc, rf_token, rf_valid, rf_checked_at, rf_log0, rf_calls,
                 rf_reply, rf_result>>
fsVars == <<fs_dir, fs_data, st_prev>>
writerVars == <<wr_pc, wr_tok, wr_fd, wr_off, wr_result, wr_last>>
readerVars == <<rd_pc, rd_fd, rd_after, rd_io, rd_bytes, rd_result>>
storeVars == <<fsVars, writerVars, readerVars>>
sseVars == <<stream, fed, cut, buf, cur_data, events>>
callVars == <<br_provider, br_auth, br_req, br_reply, br_result>>
taskVars == <<br_pc, br_parser, br_pending, br_stub_i, br_failed>>
chanVars == <<br_queue, br_rx, br_got, br_end>>
wireVars == <<wire_docs, wire_at, wire_buf>>
bridgeVars == <<callVars, taskVars, chanVars, wireVars>>
buildVars == <<bp_pc, bp_env, bp_cfg, bp_result>>
tuiVars == <<tui_pc, tui_raw, tui_alt, tui_res, tui_input, tui_lines, tui_model,
             active_stream, tui_reqs, tui_chans, tui_enters>>
filesVars == <<mcp_file, mcp_cmd, mcp_result>>
rpcVars == <<lt_pc, lt_result, rq_pc, rq_id, rq_result, next_id, rpc_sent, rpc_pipe,
             rpc_open, rpc_read>>
mcpVars == <<filesVars, rpcVars>>
vars == <<envVars, loginVars, refreshVars, storeVars, sseVars, bridgeVars,
          buildVars, tuiVars, mcpVars>>

\* What the steps of device_login, of refresh_if_needed, of
\* save_token_atomic and load_token, of SseParser::push, of stream_chat, of
\* build_provider, of run_tui and of the mcp commands, leave alone.
notLogin == <<refreshVars, storeVars, sseVars, bridgeVars, buildVars, tuiVars, mcpVars>>
notRefresh == <<loginVars, storeVars, sseVars, bridgeVars, buildVars, tuiVars, mcpVars>>
notStore == <<envVars, loginVars, refreshVars, sseVars, bridgeVars, buildVars,
              tuiVars, mcpVars>>
notSse == <<envVars, loginVars, refreshVars, storeVars, bridgeVars, buildVars,
            tuiVars, mcpVars>>
notBridge == <<now, loginVars, refreshVars, storeVars, sseVars, buildVars, tuiVars,
               mcpVars>>
notBuild == <<loginVars, sseVars, bridgeVars, tuiVars, mcpVars>>
notTui == <<envVars, loginVars, refreshVars, storeVars, sseVars, bridgeVars,
            buildVars, mcpVars>>
notMcp == <<envVars, loginVars, refreshVars, storeVars, sseVars, bridgeVars,
            buildVars, tuiVars>>

----------------------------------------------------------------------------
(* Bounds of the model. *)

MaxExpiresIn == 3     \* largest expires_in of a device-code response
MaxIntervalIn == 2    \* largest interval of a device-code response
MaxNetDelay == 1      \* longest time a request takes
MaxOversleep == 1     \* longest time a sleep lasts beyond its duration
MaxTokLife == 1       \* largest expires_in of a token response, beyond the skew
MaxNow0 == 2          \* latest clock at which the first refresh_if_needed starts
MaxObtainedAt == 1    \* latest obtained_at of the token first passed in
MaxCalls == 2         \* refresh_if_needed calls in a row
MaxIdle == 1          \* longest time between two calls
U64Bits == 8          \* width of the model's u64 (64 in the program)
MaxLines == 3         \* most lines of a response body
MaxDocs == 65         \* most data events with text in a response body
MaxPrelude == 2       \* the text events before which the body holds anything else
MaxEnters == 3        \* most times Enter is pressed
MaxServers == 3       \* most servers of the MCP servers file
MaxMsgs == 3          \* most messages an MCP server writes

----------------------------------------------------------------------------
(* Option<T>, and small helpers. *)

None == <<>>
Some(v) == <<v>>
IsSome(o) == Len(o) = 1
Unwrap(o) == o[1]
UnwrapOr(o, d) == IF IsSome(o) THEN o[1] ELSE d
OrElse(o, p) == IF IsSome(o) THEN o ELSE p
Max(a, b) == IF a >= b THEN a ELSE b

----------------------------------------------------------------------------
(* The values device_login and refresh_if_needed return. *)

NoResult == [tag |-> "none", msg |-> "", code |-> "", desc |-> "", token |-> None]
Ok(tok) == [tag |-> "ok", msg |-> "", code |-> "", desc |-> "", token |-> Some(tok)]
Err(m, c, d) == [tag |-> "err", msg |-> m, code |-> c, desc |-> d, token |-> None]

MsgDeviceCodeExpired == "device code expired; please run login again"
MsgAccessDenied == "access denied by user"
MsgOAuthError == "oauth error"
MsgTokenEndpointFailed == "token endpoint failed"

----------------------------------------------------------------------------
(* The OAuth client, and the requests it sends. *)

oauth == [client_id |-> "cid", client_secret |-> Some("secret"),
          scopes |-> <<"scope-a", "scope-b">>]

RECURSIVE Join(_)
Join(ss) ==
    IF ss = <<>> THEN ""
    ELSE IF Len(ss) = 1 THEN ss[1]
    ELSE ss[1] \o " " \o Join(Tail(ss))

DeviceCodeForm ==
    {<<"client_id", oauth.client_id>>, <<"scope", Join(oauth.scopes)>>}

SecretField ==
    IF IsSome(oauth.client_secret)
    THEN {<<"client_secret", Unwrap(oauth.client_secret)>>} ELSE {}

DeviceTokenForm(dc) ==
    {<<"client_id", oauth.client_id>>,
     <<"device_code", dc.device_code>>,
     <<"grant_type", "urn:ietf:params:oauth:grant-type:device_code">>}
    \cup SecretField

Post(url, form) == [url |-> url, form |-> form]

----------------------------------------------------------------------------
(* What the authorization server answers.  A reply is a transport outcome, *)
(* an HTTP status class and a body; a body is the set of fields of its     *)
(* JSON object (json = FALSE: the body is no JSON object at all).          *)

Reply(t, ok, b) == [transport |-> t, status_ok |-> ok, body |-> b]

DcBody(vurl, vuri, vcomplete, exp, ival) ==
    [json |-> TRUE, device_code |-> Some("dev"), user_code |-> Some("USER"),
     verification_url |-> vurl, verification_uri |-> vuri,
     verification_uri_complete |-> vcomplete,
     expires_in |-> exp, interval |-> ival]

NoDcBody == [DcBody(None, None, None, None, None) EXCEPT
                 !.json = FALSE, !.device_code = None, !.user_code = None]

DcBodies ==
    {DcBody(vurl, vuri, vcomplete, Some(e), ival) :
        vurl \in {None, Some("url_legacy")},
        vuri \in {None, Some("url_bare")},
        vcomplete \in {None, Some("url_complete")},
        e \in 0..MaxExpiresIn,
        ival \in {None} \cup {Some(i) : i \in 0..MaxIntervalIn}}

DeviceCodeReplies ==
    {Reply("send_err", FALSE, NoDcBody), Reply("read_err", TRUE, NoDcBody),
     Reply("ok", FALSE, NoDcBody), Reply("ok", TRUE, NoDcBody)}
    \cup {Reply("ok", TRUE, b) : b \in DcBodies}

TokBody(at, tt, sc, ei, rt, er, ed) ==
    [json |-> TRUE, access_token |-> at, token_type |-> tt, scope |-> sc,
     expires_in |-> ei, refresh_token |-> rt,
     error |-> er, error_description |-> ed]

GarbageBody == [TokBody(None, None, None, None, None, None, None) EXCEPT !.json = FALSE]

ErrorCodes ==
    {"authorization_pending", "slow_down", "expired_token", "access_denied",
     "invalid_grant", "SLOW_DOWN"}

ErrorBodies ==
    {TokBody(None, None, None, None, None, Some(c), d) :
        c \in ErrorCodes, d \in {None, Some("why")}}

SkewSecs == 30

SuccessBodies ==
    {TokBody(Some("at2"), Some("Bearer"), sc, ei, rt, None, None) :
        sc \in {None, Some("s2")},
        ei \in {None, Some(0)} \cup {Some(SkewSecs + k) : k \in 1..MaxTokLife},
        rt \in {None, Some("rt2")}}

EmptyObject == TokBody(None, None, None, None, None, None, None)

TokenReplies ==
    {Reply("send_err", FALSE, GarbageBody), Reply("read_err", TRUE, GarbageBody)}
    \cup {Reply("ok", ok, b) :
            ok \in BOOLEAN,
            b \in SuccessBodies \cup ErrorBodies \cup {GarbageBody, EmptyObject}}

----------------------------------------------------------------------------
(* serde_json::from_slice into the three response structs: a field without *)
(* #[serde(default)] must be present, unknown fields are ignored.          *)

ParseDeviceCode(b) ==
    IF b.json /\ IsSome(b.device_code) /\ IsSome(b.user_code)
       /\ IsSome(b.verification_url) /\ IsSome(b.expires_in)
    THEN Some([device_code |-> Unwrap(b.device_code),
               user_code |-> Unwrap(b.user_code),
               verification_url |-> Unwrap(b.verification_url),
               verification_uri |-> b.verification_uri,
               verification_uri_complete |-> b.verification_uri_complete,
               expires_in |-> Unwrap(b.expires_in),
               interval |-> b.interval])
    ELSE None

ParseTokenSuccess(b) ==
    IF b.json /\ IsSome(b.access_token) /\ IsSome(b.token_type)
    THEN Some([access_token |-> Unwrap(b.access_token),
               token_type |-> Unwrap(b.token_type),
               scope |-> b.scope,
               expires_in |-> b.expires_in,
               refresh_token |-> b.refresh_token])
    ELSE None

ParseTokenError(b) ==
    IF b.json /\ IsSome(b.error)
    THEN Some([error |-> Unwrap(b.error),
               error_description |-> b.error_description])
    ELSE None

OAuthToken(at, tt, sc, rt, oa, ei) ==
    [access_token |-> at, token_type |-> tt, scope |-> sc,
     refresh_token |-> rt, obtained_at |-> oa, expires_in |-> ei]

----------------------------------------------------------------------------
(* device_login *)

\* The URL shown to the user.
verify(dc) ==
    UnwrapOr(OrElse(dc.verification_uri_complete, dc.verification_uri),
             dc.verification_url)

Prompt(dc) ==
    <<"Open this URL in your browser and complete sign-in:", verify(dc),
      "Then enter code:", dc.user_code, "">>

DefaultInterval == 5
MinInterval == 1
SlowDownStep == 5

\* Mutant: an interval of 0 is taken as it is.
interval_NoFloor(dc) == UnwrapOr(dc.interval, DefaultInterval)

\* Line 133: dc.interval.unwrap_or(5).max(1).
interval(dc) == Max(UnwrapOr(dc.interval, DefaultInterval), MinInterval)

\* Mutant: the loop never looks at the deadline.
DeadlinePassed_Never(t, deadline) == FALSE

\* The loop's deadline test.
DeadlinePassed(t, deadline) == t > deadline

\* Mutant: slow_down is retried without slowing down.
NextPollInterval_Ignore(code, pi) == pi

\* Mutant: every retried response slows the polling down.
NextPollInterval_Always(code, pi) == pi + SlowDownStep

\* poll_interval after a token error response with code `code`.
NextPollInterval(code, pi) ==
    IF code = "slow_down" THEN pi + SlowDownStep ELSE pi

\* Mutant: expired_token has no arm of its own.
ErrorOutcome_NoExpiredArm(err) ==
    CASE err.error = "authorization_pending" -> NoResult
      [] err.error = "slow_down" -> NoResult
      [] err.error = "access_denied" -> Err(MsgAccessDenied, "", "")
      [] OTHER -> Err(MsgOAuthError, err.error, UnwrapOr(err.error_description, ""))

\* Mutant: the description of an unknown error code is dropped.
ErrorOutcome_NoDesc(err) ==
    CASE err.error = "authorization_pending" -> NoResult
      [] err.error = "slow_down" -> NoResult
      [] err.error = "expired_token" -> Err(MsgDeviceCodeExpired, "", "")
      [] err.error = "access_denied" -> Err(MsgAccessDenied, "", "")
      [] OTHER -> Err(MsgOAuthError, err.error, "")

\* What the match on err.error returns; NoResult: the loop goes on.
ErrorOutcome(err) ==
    CASE err.error = "authorization_pending" -> NoResult
      [] err.error = "slow_down" -> NoResult
      [] err.error = "expired_token" -> Err(MsgDeviceCodeExpired, "", "")
      [] err.error = "access_denied" -> Err(MsgAccessDenied, "", "")
      [] OTHER -> Err(MsgOAuthError, err.error, UnwrapOr(err.error_description, ""))

\* Mutant: a failure response whose body is not JSON is polled again.
PollOutcome_RetryNotJson(rep, t) ==
    IF rep.transport = "send_err" THEN Err("failed to poll token endpoint", "", "")
    ELSE IF rep.transport = "read_err" THEN Err("failed to read token response", "", "")
    ELSE IF rep.status_ok THEN
        LET ok == ParseTokenSuccess(rep.body) IN
        IF IsSome(ok)
        THEN Ok(OAuthToken(Unwrap(ok).access_token, Unwrap(ok).token_type,
                           Unwrap(ok).scope, Unwrap(ok).refresh_token,
                           t, Unwrap(ok).expires_in))
        ELSE Err("failed to parse token JSON", "", "")
    ELSE
        LET err == ParseTokenError(rep.body) IN
        IF IsSome(err) THEN ErrorOutcome(Unwrap(err))
        ELSE NoResult

\* What one token reply makes of the poll: the value returned (NoResult:
\* none, the loop goes on), given the clock at the time the reply is read.
PollOutcome(rep, t) ==
    IF rep.transport = "send_err" THEN Err("failed to poll token endpoint", "", "")
    ELSE IF rep.transport = "read_err" THEN Err("failed to read token response", "", "")
    ELSE IF rep.status_ok THEN
        LET ok == ParseTokenSuccess(rep.body) IN
        IF IsSome(ok)
        THEN Ok(OAuthToken(Unwrap(ok).access_token, Unwrap(ok).token_type,
                           Unwrap(ok).scope, Unwrap(ok).refresh_token,
                           t, Unwrap(ok).expires_in))
        ELSE Err("failed to parse token JSON", "", "")
    ELSE
        LET err == ParseTokenError(rep.body) IN
        IF IsSome(err) THEN ErrorOutcome(Unwrap(err))
        ELSE Err(MsgTokenEndpointFailed, "", "")

\* What a token reply was: the error code of a failure response that
\* carries one, else the name of the way it went.
ReplyKind(rep) ==
    IF rep.transport # "ok" THEN rep.transport
    ELSE IF rep.status_ok THEN
        (IF IsSome(ParseTokenSuccess(rep.body)) THEN "success" ELSE "bad_success")
    ELSE IF IsSome(ParseTokenError(rep.body)) THEN Unwrap(rep.body.error)
    ELSE "not_json"

\* No clock of a login reaches ClockCap: the deadline is at most
\* MaxNetDelay + MaxExpiresIn, and at most MaxExpiresIn + 1 sleeps start
\* before it.
ClockCap ==
    2 * MaxNetDelay + MaxExpiresIn + MaxOversleep
    + Max(MaxIntervalIn, DefaultInterval) + SlowDownStep * (MaxExpiresIn + 1)

\* Lines 98-138: the device-code request, the prompt, interval and expires_at.
DeviceCodeRequest ==
    /\ dl_pc = "start"
    /\ \E rep \in DeviceCodeReplies, d \in 0..MaxNetDelay, wr_ok \in BOOLEAN :
        LET dc == ParseDeviceCode(rep.body)
            fail == IF rep.transport = "send_err" THEN "failed to request device code"
                    ELSE IF rep.transport = "read_err" THEN "failed to read device code response"
                    ELSE IF ~rep.status_ok THEN "device code request failed"
                    ELSE IF ~IsSome(dc) THEN "failed to parse device code JSON"
                    ELSE IF ~wr_ok THEN "io error"
                    ELSE ""
        IN  /\ http_log' = Append(http_log, Post("device_code_url", DeviceCodeForm))
            /\ now' = now + d
            /\ dl_dc_reply' = Some(rep)
            /\ IF fail # ""
               THEN /\ dl_pc' = "done"
                    /\ dl_result' = Err(fail, "", "")
                    /\ UNCHANGED <<dl_dc, dl_out, dl_expires_at, poll_interval>>
               ELSE /\ dl_pc' = "loop"
                    /\ dl_dc' = dc
                    /\ dl_out' = Prompt(Unwrap(dc))
                    /\ poll_interval' = interval(Unwrap(dc))
                    /\ dl_expires_at' = now' + Unwrap(dc).expires_in
                    /\ UNCHANGED dl_result
    /\ UNCHANGED <<dl_last_sleep, dl_prev_sleep, dl_last_reply, notLogin>>

\* What the loop returns once the deadline has passed.
DeadlineFailure == Err(MsgDeviceCodeExpired, "", "")

\* Lines 141-143: the deadline test at the top of the loop.
CheckDeadline ==
    /\ dl_pc = "loop"
    /\ IF DeadlinePassed(now, dl_expires_at)
       THEN /\ dl_pc' = "done"
            /\ dl_result' = DeadlineFailure
       ELSE /\ dl_pc' = "sleep"
            /\ UNCHANGED dl_result
    /\ UNCHANGED <<envVars, dl_dc_reply, dl_dc, dl_out, dl_expires_at,
                   poll_interval, dl_last_sleep, dl_prev_sleep, dl_last_reply,
                   notLogin>>

\* Mutant: the loop does not sleep.
Sleep_None ==
    /\ dl_pc = "sleep"
    /\ dl_last_sleep' = 0
    /\ dl_prev_sleep' = dl_last_sleep
    /\ dl_pc' = "poll"
    /\ UNCHANGED <<envVars, dl_dc_reply, dl_dc, dl_out, dl_expires_at,
                   poll_interval, dl_last_reply, dl_result, notLogin>>

\* Line 145: tokio::time::sleep(poll_interval), which lasts at least that long.
Sleep ==
    /\ dl_pc = "sleep"
    /\ \E over \in 0..MaxOversleep :
        /\ now + poll_interval + over <= ClockCap
        /\ now' = now + poll_interval + over
    /\ dl_last_sleep' = poll_interval
    /\ dl_prev_sleep' = dl_last_sleep
    /\ dl_pc' = "poll"
    /\ UNCHANGED <<http_log, dl_dc_reply, dl_dc, dl_out, dl_expires_at,
                   poll_interval, dl_last_reply, dl_result, notLogin>>

\* Lines 147-210: one token request and what its reply leads to.
PollToken ==
    /\ dl_pc = "poll"
    /\ \E rep \in TokenReplies, d \in 0..MaxNetDelay :
        LET r == PollOutcome(rep, now + d) IN
        /\ http_log' = Append(http_log, Post("token_url", DeviceTokenForm(Unwrap(dl_dc))))
        /\ now' = now + d
        /\ dl_last_reply' = Some(rep)
        /\ dl_result' = r
        /\ IF r = NoResult
           THEN /\ dl_pc' = "loop"
                /\ poll_interval' = NextPollInterval(ReplyKind(rep), poll_interval)
           ELSE /\ dl_pc' = "done"
                /\ UNCHANGED poll_interval
    /\ UNCHANGED <<dl_dc_reply, dl_dc, dl_out, dl_expires_at, dl_last_sleep,
                   dl_prev_sleep, notLogin>>

----------------------------------------------------------------------------
(* OAuthToken::expires_at, OAuthToken::is_valid_for *)

U64Max == 2^U64Bits - 1
I64Max == 2^(U64Bits - 1) - 1     \* the latest second SystemTime can hold

saturating_add(a, b) == IF a + b > U64Max THEN U64Max ELSE a + b

expires_at(tok) ==
    IF IsSome(tok.expires_in)
    THEN Some(saturating_add(tok.obtained_at, Unwrap(tok.expires_in)))
    ELSE None

\* Mutant: the token is still valid at the second the margin is used up.
is_valid_for_Inclusive(tok, skew, t) ==
    LET exp == expires_at(tok) IN
    IF ~IsSome(exp) THEN TRUE
    ELSE saturating_add(t, skew) <= Unwrap(exp)

is_valid_for(tok, skew, t) ==
    LET exp == expires_at(tok) IN
    IF ~IsSome(exp) THEN TRUE
    ELSE saturating_add(t, skew) < Unwrap(exp)

----------------------------------------------------------------------------
(* refresh_if_needed *)

MsgRefreshUnavailable ==
    "access token expired and no refresh_token is available; run gemini login"

RefreshForm(tok) ==
    {<<"client_id", oauth.client_id>>,
     <<"refresh_token", Unwrap(tok.refresh_token)>>,
     <<"grant_type", "refresh_token">>}
    \cup SecretField

\* Mutant: a token with a refresh_token is refreshed whether valid or not.
RefreshCheck_NoEarlyReturn ==
    /\ rf_pc = "start"
    /\ rf_valid' = Some(is_valid_for(rf_token, SkewSecs, now))
    /\ rf_checked_at' = now
    /\ IF ~IsSome(rf_token.refresh_token)
       THEN /\ rf_pc' = "done"
            /\ rf_result' = IF is_valid_for(rf_token, SkewSecs, now)
                             THEN Ok(rf_token)
                             ELSE Err(MsgRefreshUnavailable, "", "")
       ELSE /\ rf_pc' = "exchange"
            /\ UNCHANGED rf_result
    /\ UNCHANGED <<envVars, notRefresh, rf_token, rf_log0, rf_calls, rf_reply>>

\* Mutant: an expired token without refresh_token is handed back as it is.
RefreshCheck_ReturnsStale ==
    /\ rf_pc = "start"
    /\ rf_valid' = Some(is_valid_for(rf_token, SkewSecs, now))
    /\ rf_checked_at' = now
    /\ IF is_valid_for(rf_token, SkewSecs, now) \/ ~IsSome(rf_token.refresh_token)
       THEN /\ rf_pc' = "done"
            /\ rf_result' = Ok(rf_token)
       ELSE /\ rf_pc' = "exchange"
            /\ UNCHANGED rf_result
    /\ UNCHANGED <<envVars, notRefresh, rf_token, rf_log0, rf_calls, rf_reply>>

\* Lines 218-224: the validity test and the two early returns.
RefreshCheck ==
    /\ rf_pc = "start"
    /\ rf_valid' = Some(is_valid_for(rf_token, SkewSecs, now))
    /\ rf_checked_at' = now
    /\ IF is_valid_for(rf_token, SkewSecs, now)
       THEN /\ rf_pc' = "done"
            /\ rf_result' = Ok(rf_token)
       ELSE IF ~IsSome(rf_token.refresh_token)
       THEN /\ rf_pc' = "done"
            /\ rf_result' = Err(MsgRefreshUnavailable, "", "")
       ELSE /\ rf_pc' = "exchange"
            /\ UNCHANGED rf_result
    /\ UNCHANGED <<envVars, notRefresh, rf_token, rf_log0, rf_calls, rf_reply>>

\* Mutant: the refresh_token is taken from the response, present or not.
RefreshOutcome_FromResponse(rep, tok, t) ==
    IF rep.transport = "send_err" THEN Err("failed to refresh token", "", "")
    ELSE IF rep.transport = "read_err" THEN Err("failed to read refresh response", "", "")
    ELSE IF ~rep.status_ok THEN Err("refresh failed", "", "")
    ELSE LET ok == ParseTokenSuccess(rep.body) IN
         IF ~IsSome(ok) THEN Err("failed to parse refresh token JSON", "", "")
         ELSE Ok(OAuthToken(Unwrap(ok).access_token, Unwrap(ok).token_type,
                            Unwrap(ok).scope, Unwrap(ok).refresh_token,
                            t, Unwrap(ok).expires_in))

\* What a reply to the refresh request makes refresh_if_needed return.
RefreshOutcome(rep, tok, t) ==
    IF rep.transport = "send_err" THEN Err("failed to refresh token", "", "")
    ELSE IF rep.transport = "read_err" THEN Err("failed to read refresh response", "", "")
    ELSE IF ~rep.status_ok THEN Err("refresh failed", "", "")
    ELSE LET ok == ParseTokenSuccess(rep.body) IN
         IF ~IsSome(ok) THEN Err("failed to parse refresh token JSON", "", "")
         ELSE Ok(OAuthToken(Unwrap(ok).access_token, Unwrap(ok).token_type,
                            Unwrap(ok).scope, tok.refresh_token,
                            t, Unwrap(ok).expires_in))

\* Mutant: a refresh answered with a non-success status is sent once more.
RefreshExchange_Retry ==
    /\ rf_pc = "exchange"
    /\ \E rep1 \in TokenReplies, rep2 \in TokenReplies, d \in 0..MaxNetDelay :
        LET q == Post("token_url", RefreshForm(rf_token))
            again == rep1.transport = "ok" /\ ~rep1.status_ok
        IN  /\ http_log' = IF again THEN http_log \o <<q, q>> ELSE Append(http_log, q)
            /\ now' = now + d
            /\ rf_reply' = Some(IF again THEN rep2 ELSE rep1)
            /\ rf_result' = RefreshOutcome(IF again THEN rep2 ELSE rep1, rf_token, now + d)
    /\ rf_pc' = "done"
    /\ UNCHANGED <<notRefresh, rf_token, rf_valid, rf_checked_at, rf_log0, rf_calls>>

\* Lines 226-259: the refresh request and its reply.
RefreshExchange ==
    /\ rf_pc = "exchange"
    /\ \E rep \in TokenReplies, d \in 0..MaxNetDelay :
        /\ http_log' = Append(http_log, Post("token_url", RefreshForm(rf_token)))
        /\ now' = now + d
        /\ rf_reply' = Some(rep)
        /\ rf_result' = RefreshOutcome(rep, rf_token, now + d)
    /\ rf_pc' = "done"
    /\ UNCHANGED <<notRefresh, rf_token, rf_valid, rf_checked_at, rf_log0, rf_calls>>

\* A later build_provider passes the token it got back to refresh_if_needed.
RefreshAgain ==
    /\ rf_pc = "done"
    /\ rf_result.tag = "ok"
    /\ rf_calls < MaxCalls
    /\ \E dt \in 0..MaxIdle : now' = now + dt
    /\ rf_token' = Unwrap(rf_result.token)
    /\ rf_pc' = "start"
    /\ rf_valid' = None
    /\ rf_log0' = Len(http_log)
    /\ UNCHANGED rf_checked_at
    /\ rf_calls' = rf_calls + 1
    /\ rf_reply' = None
    /\ rf_result' = NoResult
    /\ UNCHANGED <<http_log, notRefresh>>

----------------------------------------------------------------------------
(* The token file: serde_json::to_vec_pretty and from_slice of OAuthToken. *)
(* A file content is a sequence of chunks: the opening brace, one chunk    *)
(* per field in the order of the struct, the closing brace.  A chunk is a  *)
(* key and a JSON value: t is "str", "num" or "null" ("punct": a brace,    *)
(* "zero": bytes no JSON text has).                                        *)

Chunk(k, t, str, num) == [k |-> k, t |-> t, s |-> str, n |-> num]

StrChunk(k, o) ==
    IF IsSome(o) THEN Chunk(k, "str", Unwrap(o), 0) ELSE Chunk(k, "null", "", 0)

NumChunk(k, o) ==
    IF IsSome(o) THEN Chunk(k, "num", "", Unwrap(o)) ELSE Chunk(k, "null", "", 0)

OpenBrace == Chunk("{", "punct", "", 0)
CloseBrace == Chunk("}", "punct", "", 0)
Zero == Chunk("", "zero", "", 0)

\* Mutant: scope is left out of the file.
Serialize_NoScope(tok) ==
    <<OpenBrace,
      StrChunk("access_token", Some(tok.access_token)),
      StrChunk("token_type", Some(tok.token_type)),
      StrChunk("refresh_token", tok.refresh_token),
      NumChunk("obtained_at", Some(tok.obtained_at)),
      NumChunk("expires_in", tok.expires_in),
      CloseBrace>>

\* serde_json::to_vec_pretty(tok): an Option that is None is written as null.
Serialize(tok) ==
    <<OpenBrace,
      StrChunk("access_token", Some(tok.access_token)),
      StrChunk("token_type", Some(tok.token_type)),
      StrChunk("scope", tok.scope),
      StrChunk("refresh_token", tok.refresh_token),
      NumChunk("obtained_at", Some(tok.obtained_at)),
      NumChunk("expires_in", tok.expires_in),
      CloseBrace>>

\* The value of field k of a JSON object ("missing": no such field).
FieldOf(bytes, k) ==
    LET at == {i \in 2..(Len(bytes) - 1) : bytes[i].k = k} IN
    IF at = {} THEN Chunk(k, "missing", "", 0) ELSE bytes[CHOOSE i \in at : TRUE]

\* The text is one JSON object: braces around fields, no field twice.
IsJsonObject(bytes) ==
    /\ Len(bytes) >= 2
    /\ bytes[1] = OpenBrace
    /\ bytes[Len(bytes)] = CloseBrace
    /\ \A i \in 2..(Len(bytes) - 1) : bytes[i].t \in {"str", "num", "null"}
    /\ \A i, j \in 2..(Len(bytes) - 1) : bytes[i].k = bytes[j].k => i = j

OptStr(c) == IF c.t = "str" THEN Some(c.s) ELSE None
OptNum(c) == IF c.t = "num" THEN Some(c.n) ELSE None

\* serde_json::from_slice::<OAuthToken>: String and u64 fields must be
\* there with their type, an Option field may be missing or null.
Deserialize(bytes) ==
    IF /\ IsJsonObject(bytes)
       /\ FieldOf(bytes, "access_token").t = "str"
       /\ FieldOf(bytes, "token_type").t = "str"
       /\ FieldOf(bytes, "obtained_at").t = "num"
       /\ FieldOf(bytes, "scope").t \in {"str", "null", "missing"}
       /\ FieldOf(bytes, "refresh_token").t \in {"str", "null", "missing"}
       /\ FieldOf(bytes, "expires_in").t \in {"num", "null", "missing"}
    THEN Some(OAuthToken(FieldOf(bytes, "access_token").s,
                         FieldOf(bytes, "token_type").s,
                         OptStr(FieldOf(bytes, "scope")),
                         OptStr(FieldOf(bytes, "refresh_token")),
                         FieldOf(bytes, "obtained_at").n,
                         OptNum(FieldOf(bytes, "expires_in"))))
    ELSE None

----------------------------------------------------------------------------
(* save_token_atomic and load_token on the files of the state directory.  *)

Writers == {1, 2}

TokenPath == "google_oauth_token.json"
TmpName == "google_oauth_token.json.tmp"
Paths == {TokenPath, TmpName}

\* Mutant: the token is written where it is read.
tmp_path_InPlace(path) == path

tmp_path(path) == path \o ".tmp"

\* chunks written at offset off of content c; a gap is filled with zeros.
WriteAt(c, off, chunks) ==
    [i \in 1..Max(Len(c), off + Len(chunks)) |->
        IF i > off /\ i <= off + Len(chunks) THEN chunks[i - off]
        ELSE IF i <= Len(c) THEN c[i]
        ELSE Zero]

Returned(w, r) ==
    /\ wr_pc' = [wr_pc EXCEPT ![w] = "done"]
    /\ wr_result' = [wr_result EXCEPT ![w] = r]
    /\ wr_fd' = [wr_fd EXCEPT ![w] = 0]

\* Lines 274-277: create_dir_all of the parent directory.
SaveMkdir(w) ==
    /\ wr_pc[w] = "start"
    /\ \E ok \in BOOLEAN :
        IF ok
        THEN /\ wr_pc' = [wr_pc EXCEPT ![w] = "open"]
             /\ UNCHANGED <<wr_result, wr_fd>>
        ELSE Returned(w, "failed to create token directory")
    /\ UNCHANGED <<notStore, fsVars, wr_tok, wr_off, wr_last, readerVars>>

\* Line 281, std::fs::write: the temporary file is created, or cut to
\* length 0 when it is there.
SaveOpen(w) ==
    /\ wr_pc[w] = "open"
    /\ \E ok \in BOOLEAN :
        IF ~ok
        THEN /\ Returned(w, "failed to write temp token")
             /\ UNCHANGED <<fs_dir, fs_data, wr_off>>
        ELSE LET tmp == tmp_path(TokenPath)
                 ino == IF fs_dir[tmp] # 0 THEN fs_dir[tmp] ELSE Len(fs_data) + 1
             IN  /\ fs_dir' = [fs_dir EXCEPT ![tmp] = ino]
                 /\ fs_data' = IF fs_dir[tmp] # 0
                               THEN [fs_data EXCEPT ![ino] = <<>>]
                               ELSE Append(fs_data, <<>>)
                 /\ wr_fd' = [wr_fd EXCEPT ![w] = ino]
                 /\ wr_off' = [wr_off EXCEPT ![w] = 0]
                 /\ wr_pc' = [wr_pc EXCEPT ![w] = "write"]
                 /\ UNCHANGED wr_result
    /\ UNCHANGED <<notStore, st_prev, wr_tok, wr_last, readerVars>>

\* Line 281, std::fs::write: write_all, one write of some of the bytes at
\* a time, then the file is closed.
SaveWrite(w) ==
    /\ wr_pc[w] = "write"
    /\ LET bytes == Serialize(wr_tok[w]) IN
       \E ok \in BOOLEAN, n \in 1..(Len(bytes) - wr_off[w]) :
        IF ~ok
        THEN /\ Returned(w, "failed to write temp token")
             /\ UNCHANGED <<fs_data, wr_off>>
        ELSE /\ fs_data' = [fs_data EXCEPT ![wr_fd[w]] =
                              WriteAt(@, wr_off[w], SubSeq(bytes, wr_off[w] + 1, wr_off[w] + n))]
             /\ wr_off' = [wr_off EXCEPT ![w] = @ + n]
             /\ IF wr_off[w] + n = Len(bytes)
                THEN /\ wr_pc' = [wr_pc EXCEPT ![w] = "rename"]
                     /\ wr_fd' = [wr_fd EXCEPT ![w] = 0]
                ELSE UNCHANGED <<wr_pc, wr_fd>>
             /\ UNCHANGED wr_result
    /\ UNCHANGED <<notStore, fs_dir, st_prev, wr_tok, wr_last, readerVars>>

\* Lines 282-284: the temporary file is renamed over the token path.
SaveRename(w) ==
    /\ wr_pc[w] = "rename"
    /\ \E ok \in BOOLEAN :
        LET tmp == tmp_path(TokenPath) IN
        IF ok /\ fs_dir[tmp] # 0
        THEN /\ fs_dir' = [[fs_dir EXCEPT ![tmp] = 0] EXCEPT ![TokenPath] = fs_dir[tmp]]
             /\ wr_last' = w
             /\ Returned(w, "ok")
        ELSE /\ Returned(w, "failed to move token into place")
             /\ UNCHANGED <<fs_dir, wr_last>>
    /\ UNCHANGED <<notStore, fs_data, st_prev, wr_tok, wr_off, readerVars>>

\* The process stops between two file operations of save_token_atomic.
Crash(w) ==
    /\ wr_pc[w] \in {"start", "open", "write", "rename"}
    /\ wr_pc' = [wr_pc EXCEPT ![w] = "crashed"]
    /\ wr_fd' = [wr_fd EXCEPT ![w] = 0]
    /\ UNCHANGED <<notStore, fsVars, wr_tok, wr_off, wr_result, wr_last, readerVars>>

\* load_token returns Ok(None).
Absent == [NoResult EXCEPT !.tag = "ok"]

\* Mutant: every failure of std::fs::read counts as no file.
ReadFailure_AllAbsent(kind) == Absent

\* Lines 264-268: what load_token returns when std::fs::read fails.
ReadFailure(kind) ==
    IF kind = "not_found" THEN Absent ELSE Err("failed to read token", "", "")

\* Line 264, std::fs::read: the file is opened.
LoadOpen ==
    /\ rd_pc = "start"
    /\ rd_after' = {w \in Writers : wr_pc[w] = "done" /\ wr_result[w] = "ok"}
    /\ \E io \in {"ok", "other"} :
        LET kind == IF io = "other" THEN "other"
                    ELSE IF fs_dir[TokenPath] = 0 THEN "not_found" ELSE "ok"
        IN  /\ rd_io' = kind
            /\ IF kind = "ok"
               THEN /\ rd_fd' = fs_dir[TokenPath]
                    /\ rd_pc' = "read"
                    /\ UNCHANGED rd_result
               ELSE /\ rd_pc' = "done"
                    /\ rd_result' = ReadFailure(kind)
                    /\ UNCHANGED rd_fd
    /\ UNCHANGED <<notStore, fsVars, writerVars, rd_bytes>>

\* Lines 264-270, std::fs::read and serde_json::from_slice: one read takes
\* some of the bytes that follow those already read; at the end of the
\* file what was read is parsed.
LoadRead ==
    /\ rd_pc = "read"
    /\ \E io \in {"ok", "other"} :
        LET c == fs_data[rd_fd]
            pos == Len(rd_bytes)
        IN  IF io = "other"
            THEN /\ rd_io' = "other"
                 /\ rd_result' = ReadFailure("other")
                 /\ rd_pc' = "done"
                 /\ rd_fd' = 0
                 /\ UNCHANGED rd_bytes
            ELSE IF pos >= Len(c)
            THEN /\ rd_result' = IF IsSome(Deserialize(rd_bytes))
                                 THEN Ok(Unwrap(Deserialize(rd_bytes)))
                                 ELSE Err("failed to parse token JSON", "", "")
                 /\ rd_pc' = "done"
                 /\ rd_fd' = 0
                 /\ UNCHANGED <<rd_io, rd_bytes>>
            ELSE /\ \E n \in 1..(Len(c) - pos) :
                        rd_bytes' = rd_bytes \o SubSeq(c, pos + 1, pos + n)
                 /\ UNCHANGED <<rd_pc, rd_fd, rd_io, rd_result>>
    /\ UNCHANGED <<notStore, fsVars, writerVars, rd_after>>

----------------------------------------------------------------------------
(* SseParser (provider/google.rs).  A byte is a string: a letter or sign   *)
(* for itself, "SP", "CR", "LF", the two bytes "xC3" "xA9" of one UTF-8    *)
(* character, and "xFF", a byte no UTF-8 text has.                         *)

DataEvent(data) == [tag |-> "Data", data |-> data]
OtherEvent == [tag |-> "Other", data |-> <<>>]
ErrEvent == [tag |-> "Err", data |-> <<>>]

\* SseParser::new.
SseNew == [buf |-> <<>>, cur_data |-> <<>>, out |-> <<>>]

DataPrefix == <<"d", "a", "t", "a", ":">>

StartsWith(s, pre) == Len(s) >= Len(pre) /\ SubSeq(s, 1, Len(pre)) = pre

Drop(s, n) == SubSeq(s, n + 1, Len(s))

\* Vec::pop of byte b when the line ends with it.
PopIf(s, b) ==
    IF Len(s) > 0 /\ s[Len(s)] = b THEN SubSeq(s, 1, Len(s) - 1) ELSE s

\* std::str::from_utf8(line).is_ok().
RECURSIVE Utf8Valid(_)
Utf8Valid(line) ==
    IF line = <<>> THEN TRUE
    ELSE IF Head(line) = "xC3"
    THEN Len(line) >= 2 /\ line[2] = "xA9" /\ Utf8Valid(Drop(line, 2))
    ELSE Head(line) \notin {"xA9", "xFF"} /\ Utf8Valid(Tail(line))

\* memchr(b'\n', buf): the first newline of buf (0: none).
memchr(b, haystack) ==
    LET at == {i \in 1..Len(haystack) : haystack[i] = b} IN
    IF at = {} THEN 0 ELSE CHOOSE i \in at : \A j \in at : i <= j

\* Mutant: the accumulated data keeps its last newline.
BlankLine_KeepsNewline(cur) ==
    IF cur # <<>>
    THEN [cur_data |-> <<>>, out |-> <<DataEvent(cur)>>]
    ELSE [cur_data |-> cur, out |-> <<>>]

\* Lines 248-258: an empty line ends the event.
BlankLine(cur) ==
    IF cur # <<>>
    THEN [cur_data |-> <<>>, out |-> <<DataEvent(PopIf(cur, "LF"))>>]
    ELSE [cur_data |-> cur, out |-> <<>>]

\* Mutant: a line that is not UTF-8 throws the accumulated data away.
BadLine_Clears(cur) == [cur_data |-> <<>>, out |-> <<ErrEvent>>]

\* Lines 260-266: a line that is not UTF-8.
BadLine(cur) == [cur_data |-> cur, out |-> <<ErrEvent>>]

\* Line 270: rest.strip_prefix(' ').unwrap_or(rest).
StripSpace(rest) == IF StartsWith(rest, <<"SP">>) THEN Drop(rest, 1) ELSE rest

\* Mutant: a line of another field throws the accumulated data away.
TextLine_OtherClears(cur, s) ==
    IF StartsWith(s, DataPrefix)
    THEN [cur_data |-> cur \o StripSpace(Drop(s, Len(DataPrefix))) \o <<"LF">>,
          out |-> <<>>]
    ELSE [cur_data |-> <<>>, out |-> <<OtherEvent>>]

\* Lines 268-276: a line of text, a data: line or any other.
TextLine(cur, s) ==
    IF StartsWith(s, DataPrefix)
    THEN [cur_data |-> cur \o StripSpace(Drop(s, Len(DataPrefix))) \o <<"LF">>,
          out |-> <<>>]
    ELSE [cur_data |-> cur, out |-> <<OtherEvent>>]

\* Lines 240-276: one pass of the loop, on the line drained from buf.
OneLine(cur, drained) ==
    LET line == PopIf(PopIf(drained, "LF"), "CR") IN
    IF line = <<>> THEN BlankLine(cur)
    ELSE IF ~Utf8Valid(line) THEN BadLine(cur)
    ELSE TextLine(cur, line)

\* Lines 236-277: the loop, until buf has no newline.
RECURSIVE Drain(_)
Drain(st) ==
    LET pos == memchr("LF", st.buf) IN
    IF pos = 0 THEN st
    ELSE LET r == OneLine(st.cur_data, SubSeq(st.buf, 1, pos)) IN
         Drain([buf |-> Drop(st.buf, pos),
                cur_data |-> r.cur_data,
                out |-> st.out \o r.out])

\* Mutant: the bytes left from the call before are forgotten.
push_ForgetsBuffered(st, chunk) ==
    Drain([buf |-> chunk, cur_data |-> st.cur_data, out |-> <<>>])

\* SseParser::push(chunk) on the parser st: the parser after the call, and
\* in out what the call returns.
push(st, chunk) ==
    Drain([buf |-> st.buf \o chunk, cur_data |-> st.cur_data, out |-> <<>>])

\* The lines a response body is made of.
SseLines ==
    << <<"d", "a", "t", "a", ":", "a", "LF">>,
       <<"d", "a", "t", "a", ":", "SP", "b", "CR", "LF">>,
       <<"LF">>,
       <<"CR", "LF">>,
       <<":", "c", "LF">>,
       <<"d", "a", "t", "a", ":", "SP", "SP", "xC3", "xA9", "LF">>,
       <<"d", "a", "t", "a", ":", "xFF", "LF">>,
       <<"d", "a", "t", "a", ":", "LF">> >>

RECURSIVE Bytes(_)
Bytes(ls) == IF ls = <<>> THEN <<>> ELSE SseLines[Head(ls)] \o Bytes(Tail(ls))

\* Where a fragment begins, from what the parser holds.
CutAt(b, cur) ==
    IF b = <<>> THEN (IF cur = <<>> THEN "line" ELSE "event")
    ELSE IF b[Len(b)] = "CR" THEN "cr" ELSE "inside"

\* One call of SseParser::push with the next n bytes of the body.
Feed ==
    /\ fed < Len(Bytes(stream))
    /\ \E n \in 1..(Len(Bytes(stream)) - fed) :
        LET st == push([buf |-> buf, cur_data |-> cur_data, out |-> <<>>],
                       SubSeq(Bytes(stream), fed + 1, fed + n))
        IN  /\ buf' = st.buf
            /\ cur_data' = st.cur_data
            /\ events' = events \o st.out
            /\ fed' = fed + n
            /\ cut' = CutAt(buf, cur_data)
    /\ UNCHANGED <<notSse, stream>>

----------------------------------------------------------------------------
(* stream_chat (provider/google.rs, provider/stub.rs): the request, the    *)
(* background task, the channel between the task and the consumer, and     *)
(* the server the task reads from.  GoogleAuth is a record of its kind,    *)
(* "ApiKey" or "BearerToken", and its value.                               *)

GoogleQueueCap == 64
StubQueueCap == 32

\* Mutant: a channel of twice the size.
capacity_Twice(provider) == 2 * GoogleQueueCap

\* mpsc::channel(n): the capacity of the channel stream_chat creates.
capacity(provider) == IF provider = "google" THEN GoogleQueueCap ELSE StubQueueCap

\* Mutant: the key is appended whatever the credential.
build_url_AlwaysKey(auth, model) ==
    [path |-> "v1beta/models/" \o model \o ":streamGenerateContent",
     query |-> << <<"key", auth.value>>, <<"alt", "sse">> >>]

\* GoogleProvider::build_url: the path and the query pairs, in order.
build_url(auth, model) ==
    [path |-> "v1beta/models/" \o model \o ":streamGenerateContent",
     query |-> (IF auth.kind = "ApiKey" THEN << <<"key", auth.value>> >> ELSE <<>>)
               \o << <<"alt", "sse">> >>]

\* GoogleProvider::headers: the header map, or None when
\* HeaderValue::from_str meets a control character.
headers(auth) ==
    LET h == << <<"content-type", "application/json">> >>
        valid(v) == \A i \in 1..Len(v) : SubSeq(v, i, i) \notin {"\n", "\r"}
    IN  IF auth.kind = "BearerToken"
        THEN (IF valid("Bearer " \o auth.value)
              THEN Some(h \o << <<"authorization", "Bearer " \o auth.value>> >>)
              ELSE None)
        ELSE Some(h)

\* The JSON documents a data event can carry, each one byte of the model,
\* and the StreamGenerateContentResponse serde_json makes of them.
JsonDocs ==
    LET Part(text) == [text |-> text]
        Candidate(parts) == [content |-> Some([role |-> Some("model"), parts |-> parts])]
        NoContent == [content |-> None]
        Response(candidates) == [candidates |-> candidates]
    IN  [J1 |-> Response(<<Candidate(<<Part(Some("x")), Part(Some("y"))>>)>>),
         J2 |-> Response(<<Candidate(<<Part(None), Part(Some("y"))>>)>>),
         J3 |-> Response(<<Candidate(<<Part(Some("x"))>>), Candidate(<<Part(Some("z"))>>)>>),
         J4 |-> Response(<<>>),
         J5 |-> Response(<<NoContent>>),
         J6 |-> Response(<<Candidate(<<>>)>>),
         J7 |-> Response(<<Candidate(<<Part(Some(""))>>)>>),
         J8 |-> Response(<<NoContent, Candidate(<<Part(Some("z"))>>)>>)]

\* serde_json::from_str::<StreamGenerateContentResponse>(data).
from_str(data) ==
    IF Len(data) = 1 /\ data[1] \in DOMAIN JsonDocs
    THEN Some(JsonDocs[data[1]])
    ELSE None

\* Lines 200-205: out after the loop over parts.
RECURSIVE ConcatParts(_)
ConcatParts(parts) ==
    IF parts = <<>> THEN ""
    ELSE UnwrapOr(Head(parts).text, "") \o ConcatParts(Tail(parts))

\* Mutant: an empty text is a text.
extract_text_KeepsEmpty(r) ==
    IF r.candidates = <<>> THEN None
    ELSE IF Head(r.candidates).content = None THEN None
    ELSE Some(ConcatParts(Unwrap(Head(r.candidates).content).parts))

\* extract_text.
extract_text(r) ==
    IF r.candidates = <<>> THEN None
    ELSE IF Head(r.candidates).content = None THEN None
    ELSE LET out == ConcatParts(Unwrap(Head(r.candidates).content).parts) IN
         IF out = "" THEN None ELSE Some(out)

\* The items of the channel: anyhow::Result<ChatChunk>.
OkChunk(text) == [tag |-> "Ok", text |-> text]
ErrItem(context) == [tag |-> "Err", text |-> context]

\* Lines 123-154: what the task does with one event of parser.push: the
\* item it sends, if any, and whether it returns after the send.  NetErr
\* stands for the failure of stream.next() (lines 117-120).
Handle(ev) ==
    LET skip == [send |-> None, stop |-> FALSE]
        fail(context) == [send |-> Some(ErrItem(context)), stop |-> TRUE]
        blank == \A i \in 1..Len(ev.data) : ev.data[i] \in {"SP", "CR", "LF"}
    IN  IF ev.tag = "NetErr" THEN fail("network stream error")
        ELSE IF ev.tag = "Err" THEN fail("SSE line is not valid UTF-8")
        ELSE IF ev.tag = "Other" THEN skip
        ELSE IF blank THEN skip
        ELSE IF from_str(ev.data) = None THEN fail("failed to parse SSE JSON")
        ELSE LET text == extract_text(Unwrap(from_str(ev.data))) IN
             IF text = None THEN skip
             ELSE [send |-> Some(OkChunk(Unwrap(text))), stop |-> FALSE]

\* The document of the n-th data event with text that the server sends, and
\* the bytes of a data: line and of a whole event.
TextDoc(n) == <<"J1", "J2", "J3">>[(n % 3) + 1]
DataLine(payload) == DataPrefix \o <<"SP">> \o payload \o <<"LF">>
DataEv(payload) == DataLine(payload) \o <<"LF">>

\* What stream.next() can return next, given what the server has sent: the
\* item, the data events with text sent before any failure, and where the
\* server is afterwards.
WireItems ==
    LET n == wire_docs
        item(kind, bytes, docs, at) ==
            [kind |-> kind, bytes |-> bytes, docs |-> docs, at |-> at]
        ends == {item("end", <<>>, n, "ended"), item("error", <<>>, n, "failed")}
        more == IF n < MaxDocs
                THEN {item("bytes", DataEv(<<TextDoc(n + 1)>>), n + 1, "event")}
                ELSE {}
        odd ==
            {item("bytes", DataEv(<<TextDoc(n + 1)>>) \o DataEv(<<TextDoc(n + 2)>>),
                  n + 2, "event"),
             item("bytes", DataLine(<<TextDoc(n + 1)>>), n, "head"),
             item("bytes", DataPrefix \o <<TextDoc(n + 1)>>, n, "tail"),
             item("bytes", DataLine(<<TextDoc(n + 1)>>) \o DataPrefix \o <<TextDoc(n + 2)>>,
                  n, "tail"),
             item("bytes", <<":", "c", "LF">>, n, "event"),
             item("bytes", DataEv(<<"SP">>), n, "event"),
             item("bytes", DataEv(<<"a">>), n, "failed"),
             item("bytes", <<"xFF", "LF">> \o DataEv(<<TextDoc(n + 1)>>), n, "failed"),
             item("bytes", DataEv(<<TextDoc(n + 1)>>) \o DataEv(<<"a">>)
                           \o DataEv(<<TextDoc(n + 2)>>), n + 1, "failed")}
            \cup {item("bytes", DataEv(<<d>>), n, "event") :
                    d \in {"J4", "J5", "J6", "J7", "J8"}}
    IN  IF wire_at = "head"
        THEN ends \cup {item("bytes", <<"LF">>, n + 1, "event")}
        ELSE IF wire_at = "tail"
        THEN ends
        ELSE ends \cup more \cup (IF n < MaxPrelude THEN odd ELSE {})

\* The generation endpoint sends something, which the task has not taken yet.
ServerSend ==
    /\ br_provider = "google"
    /\ br_pc \in {"next", "events"}
    /\ wire_at \in {"event", "head", "tail"}
    /\ wire_buf = None
    /\ \E it \in WireItems :
        /\ wire_buf' = Some([kind |-> it.kind, bytes |-> it.bytes])
        /\ wire_docs' = it.docs
        /\ wire_at' = it.at
    /\ UNCHANGED <<notBridge, http_log, callVars, taskVars, chanVars>>

\* Mutant: a non-success status is not looked at.
StartOutcome_AnyStatus(rep) ==
    IF rep.transport # "ok" THEN Err("failed to start Gemini request", "", "")
    ELSE Ok("stream")

\* Lines 94-106: what stream_chat makes of the reply to its request.
StartOutcome(rep) ==
    IF rep.transport # "ok" THEN Err("failed to start Gemini request", "", "")
    ELSE IF SubSeq(rep.status, 1, 1) # "2"
    THEN Err("Gemini API error", rep.status, rep.body)
    ELSE Ok("stream")

\* stream_chat, up to the value it returns: the request of the google
\* provider and the channel and task of both providers.
StartStream ==
    /\ br_pc = "start"
    /\ \/ /\ br_provider = "google"
          /\ headers(br_auth) = None
          /\ br_result' = Err("invalid header value", "", "")
          /\ br_pc' = "none"
          /\ UNCHANGED <<http_log, br_reply, br_rx, wire_at>>
       \/ /\ br_provider = "google"
          /\ headers(br_auth) # None
          /\ http_log' = Append(http_log,
                                [url |-> build_url(br_auth, br_req.model),
                                 headers |-> Unwrap(headers(br_auth)),
                                 json |-> br_req.prompt])
          /\ \E rep \in {[transport |-> "failed", status |-> "", body |-> ""]}
                        \cup [transport : {"ok"}, status : {"200", "204"}, body : {""}]
                        \cup [transport : {"ok"}, status : {"404", "500"},
                              body : {"", "quota"}] :
                /\ br_reply' = Some(rep)
                /\ br_result' = StartOutcome(rep)
          /\ IF br_result'.tag = "ok"
             THEN br_rx' = "open" /\ br_pc' = "next" /\ wire_at' = "event"
             ELSE br_rx' = "none" /\ br_pc' = "none" /\ wire_at' = "closed"
       \/ /\ br_provider = "stub"
          /\ br_result' = Ok("stream")
          /\ br_rx' = "open"
          /\ br_pc' = "stub_header"
          /\ UNCHANGED <<http_log, br_reply, wire_at>>
    /\ UNCHANGED <<notBridge, br_provider, br_auth, br_req, br_parser, br_pending,
                   br_stub_i, br_failed, br_queue, br_got, br_end, wire_docs, wire_buf>>

\* Mutant: at the end of the body the data lines held are given as an event.
TaskNext_FlushesAtEnd ==
    /\ br_pc = "next"
    /\ wire_buf # None
    /\ wire_buf' = None
    /\ LET it == Unwrap(wire_buf)
           st == push(br_parser, it.bytes)
       IN  IF it.kind = "end"
           THEN IF br_parser.cur_data = <<>>
                THEN br_pc' = "done" /\ UNCHANGED <<br_parser, br_pending>>
                ELSE /\ br_pc' = "events"
                     /\ br_pending' = <<DataEvent(PopIf(br_parser.cur_data, "LF"))>>
                     /\ br_parser' = [buf |-> <<>>, cur_data |-> <<>>]
           ELSE IF it.kind = "error"
           THEN /\ br_pc' = "events"
                /\ br_pending' = <<[tag |-> "NetErr", data |-> <<>>]>>
                /\ UNCHANGED br_parser
           ELSE /\ br_parser' = [buf |-> st.buf, cur_data |-> st.cur_data]
                /\ br_pending' = st.out
                /\ br_pc' = IF st.out = <<>> THEN "next" ELSE "events"
    /\ UNCHANGED <<notBridge, http_log, callVars, br_stub_i, br_failed, chanVars,
                   wire_docs, wire_at>>

\* Lines 114-123: stream.next() returns; the bytes go through parser.push.
TaskNext ==
    /\ br_pc = "next"
    /\ wire_buf # None
    /\ wire_buf' = None
    /\ LET it == Unwrap(wire_buf)
           st == push(br_parser, it.bytes)
       IN  IF it.kind = "end"
           THEN br_pc' = "done" /\ UNCHANGED <<br_parser, br_pending>>
           ELSE IF it.kind = "error"
           THEN /\ br_pc' = "events"
                /\ br_pending' = <<[tag |-> "NetErr", data |-> <<>>]>>
                /\ UNCHANGED br_parser
           ELSE /\ br_parser' = [buf |-> st.buf, cur_data |-> st.cur_data]
                /\ br_pending' = st.out
                /\ br_pc' = IF st.out = <<>> THEN "next" ELSE "events"
    /\ UNCHANGED <<notBridge, http_log, callVars, br_stub_i, br_failed, chanVars,
                   wire_docs, wire_at>>

\* Mutant: the task goes on with the next event after it has sent a failure.
TaskEvent_GoesOn ==
    /\ br_pc = "events"
    /\ LET h == Handle(Head(br_pending))
           rest == Tail(br_pending)
           on == IF rest = <<>> THEN "next" ELSE "events"
       IN  IF h.send = None
           THEN br_pending' = rest /\ br_pc' = on /\ UNCHANGED <<br_queue, br_failed>>
           ELSE IF br_rx = "dropped"
           THEN /\ br_failed' = br_failed + 1
                /\ br_pending' = <<>>
                /\ br_pc' = "done"
                /\ UNCHANGED br_queue
           ELSE /\ Len(br_queue) < capacity(br_provider)
                /\ br_queue' = Append(br_queue, Unwrap(h.send))
                /\ br_pending' = rest /\ br_pc' = on
                /\ UNCHANGED br_failed
    /\ UNCHANGED <<notBridge, http_log, callVars, br_parser, br_stub_i, br_rx, br_got,
                   br_end, wireVars>>

\* Lines 123-155: the task handles the next event of the loop; a send waits
\* while the channel is full and fails once the receiver is dropped.
TaskEvent ==
    /\ br_pc = "events"
    /\ LET h == Handle(Head(br_pending))
           rest == Tail(br_pending)
           on == IF rest = <<>> THEN "next" ELSE "events"
       IN  IF h.send = None
           THEN br_pending' = rest /\ br_pc' = on /\ UNCHANGED <<br_queue, br_failed>>
           ELSE IF br_rx = "dropped"
           THEN /\ br_failed' = br_failed + 1
                /\ br_pending' = <<>>
                /\ br_pc' = "done"
                /\ UNCHANGED br_queue
           ELSE /\ Len(br_queue) < capacity(br_provider)
                /\ br_queue' = Append(br_queue, Unwrap(h.send))
                /\ IF h.stop
                   THEN br_pending' = <<>> /\ br_pc' = "done"
                   ELSE br_pending' = rest /\ br_pc' = on
                /\ UNCHANGED br_failed
    /\ UNCHANGED <<notBridge, http_log, callVars, br_parser, br_stub_i, br_rx, br_got,
                   br_end, wireVars>>

\* format!("{:?}", include_directories).
RECURSIVE DebugDirs(_)
DebugDirs(dirs) ==
    IF dirs = <<>> THEN "[]"
    ELSE IF Len(dirs) = 1 THEN "[\"" \o dirs[1] \o "\"]"
    ELSE "[\"" \o dirs[1] \o "\", " \o Tail(DebugDirs(Tail(dirs)))

\* Mutant: the prompt is left out.
StubTexts_NoPrompt(req) ==
    <<"[stub provider]\nmodel: " \o req.model \o "\ninclude_directories: "
        \o DebugDirs(req.include_directories) \o "\n\n",
      "You said: ",
      "\n\n",
      "(This is streaming scaffolding; Phase A does not call Gemini APIs yet.)">>

\* stub.rs, lines 36-50: the header and the parts.
StubTexts(req) ==
    <<"[stub provider]\nmodel: " \o req.model \o "\ninclude_directories: "
        \o DebugDirs(req.include_directories) \o "\n\n",
      "You said: ",
      req.prompt,
      "\n\n",
      "(This is streaming scaffolding; Phase A does not call Gemini APIs yet.)">>

\* stub.rs, lines 36-43: the header is sent and the outcome is not looked at.
StubHeader ==
    /\ br_pc = "stub_header"
    /\ IF br_rx = "dropped"
       THEN br_failed' = br_failed + 1 /\ UNCHANGED br_queue
       ELSE /\ Len(br_queue) < capacity(br_provider)
            /\ br_queue' = Append(br_queue, OkChunk(StubTexts(br_req)[1]))
            /\ UNCHANGED br_failed
    /\ br_pc' = "stub_parts"
    /\ br_stub_i' = 1
    /\ UNCHANGED <<notBridge, http_log, callVars, br_parser, br_pending, br_rx, br_got,
                   br_end, wireVars>>

\* stub.rs, lines 52-57: one turn of the loop, the sleep and the send.
StubSend ==
    /\ br_pc = "stub_parts"
    /\ IF br_rx = "dropped"
       THEN /\ br_failed' = br_failed + 1
            /\ br_pc' = "done"
            /\ UNCHANGED <<br_queue, br_stub_i>>
       ELSE /\ Len(br_queue) < capacity(br_provider)
            /\ br_queue' = Append(br_queue, OkChunk(StubTexts(br_req)[br_stub_i + 1]))
            /\ br_stub_i' = br_stub_i + 1
            /\ br_pc' = IF br_stub_i + 1 = Len(StubTexts(br_req)) THEN "done"
                        ELSE "stub_parts"
            /\ UNCHANGED br_failed
    /\ UNCHANGED <<notBridge, http_log, callVars, br_parser, br_pending, br_rx, br_got,
                   br_end, wireVars>>

\* Mutant: the consumer is handed the newest item of the channel.
Recv_Newest ==
    /\ br_rx = "open"
    /\ ~br_end
    /\ IF br_queue # <<>>
       THEN /\ br_got' = Append(br_got, br_queue[Len(br_queue)])
            /\ br_queue' = SubSeq(br_queue, 1, Len(br_queue) - 1)
            /\ UNCHANGED br_end
       ELSE /\ br_pc = "done"
            /\ br_end' = TRUE
            /\ UNCHANGED <<br_queue, br_got>>
    /\ UNCHANGED <<notBridge, http_log, callVars, taskVars, br_rx, wireVars>>

\* The consumer polls the stream (ReceiverStream): the oldest item, or the
\* end once the channel is empty and the task has dropped the sender.
Recv ==
    /\ br_rx = "open"
    /\ ~br_end
    /\ IF br_queue # <<>>
       THEN /\ br_got' = Append(br_got, Head(br_queue))
            /\ br_queue' = Tail(br_queue)
            /\ UNCHANGED br_end
       ELSE /\ br_pc = "done"
            /\ br_end' = TRUE
            /\ UNCHANGED <<br_queue, br_got>>
    /\ UNCHANGED <<notBridge, http_log, callVars, taskVars, br_rx, wireVars>>

\* The consumer drops the stream: the receiver closes the channel and the
\* items still in it are dropped.
DropStream ==
    /\ br_rx = "open"
    /\ br_rx' = "dropped"
    /\ br_queue' = <<>>
    /\ UNCHANGED <<notBridge, http_log, callVars, taskVars, br_got, br_end, wireVars>>

----------------------------------------------------------------------------
(* build_provider (app.rs, main.rs), provider "google": the steps between  *)
(* the calls of load_token, refresh_if_needed and save_token_atomic, which *)
(* run as modelled above (the save as writer 1).  What it returns is the   *)
(* GoogleAuth the provider is made with.                                   *)

MsgNoCredentials ==
    "No API key or OAuth token found. Set GEMINI_API_KEY or run gemini login."

\* Mutant: the token file is looked at whether there is a key or not.
BuildResolve_TokenFirst ==
    /\ bp_pc = "start"
    /\ \E ok \in BOOLEAN :
        IF ok
        THEN bp_pc' = "load" /\ rd_pc' = "start" /\ UNCHANGED bp_result
        ELSE /\ bp_pc' = "done"
             /\ bp_result' = Err("failed to create directory", "", "")
             /\ UNCHANGED rd_pc
    /\ UNCHANGED <<notBuild, envVars, refreshVars, fsVars, writerVars, rd_fd, rd_after,
                   rd_io, rd_bytes, rd_result, bp_env, bp_cfg>>

\* Lines 42-49: the API key of the environment, else of the configuration;
\* without one, the token path (whose directory is created).
BuildResolve ==
    /\ bp_pc = "start"
    /\ LET api_key == OrElse(bp_env.api_key, bp_cfg.api_key) IN
       IF IsSome(api_key)
       THEN /\ bp_pc' = "done"
            /\ bp_result' = Ok([kind |-> "ApiKey", value |-> Unwrap(api_key)])
            /\ UNCHANGED rd_pc
       ELSE \E ok \in BOOLEAN :
            IF ok
            THEN bp_pc' = "load" /\ rd_pc' = "start" /\ UNCHANGED bp_result
            ELSE /\ bp_pc' = "done"
                 /\ bp_result' = Err("failed to create directory", "", "")
                 /\ UNCHANGED rd_pc
    /\ UNCHANGED <<notBuild, envVars, refreshVars, fsVars, writerVars, rd_fd, rd_after,
                   rd_io, rd_bytes, rd_result, bp_env, bp_cfg>>

\* Lines 50-72: load_token has returned; without a token the build fails,
\* with one the client id is looked up and refresh_if_needed is called.
BuildLoaded ==
    /\ bp_pc = "load"
    /\ rd_pc = "done"
    /\ IF rd_result = Absent
       THEN /\ bp_pc' = "done"
            /\ bp_result' = Err(MsgNoCredentials, "", "")
            /\ UNCHANGED refreshVars
       ELSE IF rd_result.tag = "err"
       THEN /\ bp_pc' = "done"
            /\ bp_result' = rd_result
            /\ UNCHANGED refreshVars
       ELSE IF ~IsSome(OrElse(bp_env.client_id, bp_cfg.client_id))
       THEN /\ bp_pc' = "done"
            /\ bp_result' = Err("missing OAuth client id for refresh", "", "")
            /\ UNCHANGED refreshVars
       ELSE /\ bp_pc' = "refresh"
            /\ rf_pc' = "start"
            /\ rf_token' = Unwrap(rd_result.token)
            /\ rf_log0' = Len(http_log)
            /\ rf_calls' = 1
            /\ UNCHANGED <<bp_result, rf_valid, rf_checked_at, rf_reply, rf_result>>
    /\ UNCHANGED <<notBuild, envVars, storeVars, bp_env, bp_cfg>>

\* Mutant: after a failed refresh the token read from the file is saved.
BuildRefreshed_SavesAnyway ==
    /\ bp_pc = "refresh"
    /\ rf_pc = "done"
    /\ bp_pc' = "save"
    /\ wr_pc' = [wr_pc EXCEPT ![1] = "start"]
    /\ wr_tok' = [wr_tok EXCEPT ![1] = IF rf_result.tag = "err" THEN rf_token
                                       ELSE Unwrap(rf_result.token)]
    /\ UNCHANGED bp_result
    /\ UNCHANGED <<notBuild, envVars, refreshVars, fsVars, wr_fd, wr_off, wr_result,
                   wr_last, readerVars, bp_env, bp_cfg>>

\* Lines 73-74: refresh_if_needed has returned; its failure is the failure
\* of the build, its token is saved.
BuildRefreshed ==
    /\ bp_pc = "refresh"
    /\ rf_pc = "done"
    /\ IF rf_result.tag = "err"
       THEN /\ bp_pc' = "done"
            /\ bp_result' = rf_result
            /\ UNCHANGED <<wr_pc, wr_tok>>
       ELSE /\ bp_pc' = "save"
            /\ wr_pc' = [wr_pc EXCEPT ![1] = "start"]
            /\ wr_tok' = [wr_tok EXCEPT ![1] = Unwrap(rf_result.token)]
            /\ UNCHANGED bp_result
    /\ UNCHANGED <<notBuild, envVars, refreshVars, fsVars, wr_fd, wr_off, wr_result,
                   wr_last, readerVars, bp_env, bp_cfg>>

\* Lines 74-75: save_token_atomic has returned.
BuildSaved ==
    /\ bp_pc = "save"
    /\ wr_pc[1] = "done"
    /\ bp_pc' = "done"
    /\ bp_result' = IF wr_result[1] = "ok"
                    THEN Ok([kind |-> "BearerToken", value |-> wr_tok[1].access_token])
                    ELSE Err(wr_result[1], "", "")
    /\ UNCHANGED <<notBuild, envVars, refreshVars, storeVars, bp_env, bp_cfg>>

----------------------------------------------------------------------------
(* run_tui and handle_key (tui.rs), from enable_raw_mode on.  The input is *)
(* a sequence of words: a key stands for the characters of one word, and   *)
(* "SP" is a space; what the user types is the beginning of one of a few   *)
(* lines.  The provider is whatever stream_chat and the items of its       *)
(* stream may be.                                                          *)

ChatLine(role, text) == [role |-> role, text |-> text]

\* The lines the user types, and the keys: Char(c) for each word c.
TypedLines ==
    { <<"hi">>, <<"SP", "hi">>, <<"/quit">>, <<"/clear">>, <<"/model", "SP", "hi">> }
Keys == {[code |-> "CtrlC"], [code |-> "Esc"], [code |-> "Backspace"],
         [code |-> "Enter"], [code |-> "F1"]}
        \cup {[code |-> "Char", c |-> c] :
                c \in {"hi", "SP", "/quit", "/clear", "/model"}}

\* What the stream of a provider gives: chunks, then its end or a failure,
\* or nothing more.
ProviderStreams ==
    { <<"end">>, <<"chunk", "end">>, <<"err">>, <<"chunk", "err">>, <<"chunk">> }

\* str::trim.
RECURSIVE trim(_)
trim(s) ==
    IF s # <<>> /\ Head(s) = "SP" THEN trim(Tail(s))
    ELSE IF s # <<>> /\ s[Len(s)] = "SP" THEN trim(SubSeq(s, 1, Len(s) - 1))
    ELSE s

\* Line 45.
EnableRaw ==
    /\ tui_pc = "start"
    /\ \E ok \in BOOLEAN :
        IF ok
        THEN tui_raw' = TRUE /\ tui_pc' = "enter" /\ UNCHANGED tui_res
        ELSE tui_pc' = "returned" /\ tui_res' = "enable raw mode" /\ UNCHANGED tui_raw
    /\ UNCHANGED <<notTui, tui_alt, tui_input, tui_lines, tui_model, active_stream,
                   tui_reqs, tui_chans, tui_enters>>

\* Lines 46-48.
EnterScreen ==
    /\ tui_pc = "enter"
    /\ \E ok \in BOOLEAN :
        IF ok
        THEN tui_alt' = TRUE /\ tui_pc' = "terminal" /\ UNCHANGED tui_res
        ELSE tui_pc' = "returned" /\ tui_res' = "enter alt screen" /\ UNCHANGED tui_alt
    /\ UNCHANGED <<notTui, tui_raw, tui_input, tui_lines, tui_model, active_stream,
                   tui_reqs, tui_chans, tui_enters>>

\* Lines 50-75: the terminal, the thread of the events, the first line.
NewTerminal ==
    /\ tui_pc = "terminal"
    /\ \E ok \in BOOLEAN :
        IF ok
        THEN /\ tui_pc' = "loop"
             /\ tui_lines' = <<ChatLine("system", <<"Type a message and press Enter.">>)>>
             /\ UNCHANGED tui_res
        ELSE /\ tui_pc' = "returned"
             /\ tui_res' = "create terminal"
             /\ UNCHANGED tui_lines
    /\ UNCHANGED <<notTui, tui_raw, tui_alt, tui_input, tui_model, active_stream,
                   tui_reqs, tui_chans, tui_enters>>

\* Lines 79-83: the ticker; a failure of draw leaves the loop.
Tick ==
    /\ tui_pc = "loop"
    /\ \E ok \in BOOLEAN :
        IF ok
        THEN UNCHANGED <<tui_pc, tui_res>>
        ELSE tui_pc' = "restore" /\ tui_res' = "draw failed"
    /\ UNCHANGED <<notTui, tui_raw, tui_alt, tui_input, tui_lines, tui_model,
                   active_stream, tui_reqs, tui_chans, tui_enters>>

\* Mutant: a message is sent whether a stream is active or not.
in_progress_Never(active) == FALSE

\* Line 166: active_stream.is_some().
in_progress(active) == IsSome(active)

\* Lines 84-94 and handle_key: one key event.  Ok(true) leaves the loop, and
\* the failure of stream_chat leaves run_tui through the ? of line 87.
HandleKey ==
    /\ tui_pc = "loop"
    /\ \E key \in Keys :
        LET msg == trim(tui_input)
            quit == /\ tui_pc' = "restore"
                    /\ tui_res' = "ok"
                    /\ UNCHANGED <<tui_lines, tui_model, active_stream, tui_reqs,
                                   tui_chans>>
            on == UNCHANGED <<tui_pc, tui_res>>
            same == UNCHANGED <<tui_lines, tui_model, active_stream, tui_reqs, tui_chans>>
        IN  IF key.code \in {"CtrlC", "Esc"}
            THEN quit /\ UNCHANGED <<tui_input, tui_enters>>
            ELSE IF key.code = "Char"
            THEN /\ \E l \in TypedLines :
                        /\ Len(l) > Len(tui_input)
                        /\ SubSeq(l, 1, Len(tui_input) + 1) = Append(tui_input, key.c)
                 /\ tui_input' = Append(tui_input, key.c)
                 /\ on /\ same /\ UNCHANGED tui_enters
            ELSE IF key.code = "Backspace"
            THEN /\ tui_input' = SubSeq(tui_input, 1, Len(tui_input) - 1)
                 /\ on /\ same /\ UNCHANGED tui_enters
            ELSE IF key.code # "Enter"
            THEN on /\ same /\ UNCHANGED <<tui_input, tui_enters>>
            ELSE /\ tui_enters < MaxEnters
                 /\ tui_enters' = tui_enters + 1
                 /\ tui_input' = <<>>
                 /\ IF msg = <<>> THEN on /\ same
                    ELSE IF msg = <<"/quit">> THEN quit
                    ELSE IF msg = <<"/clear">>
                    THEN /\ tui_lines' = <<>>
                         /\ on
                         /\ UNCHANGED <<tui_model, active_stream, tui_reqs, tui_chans>>
                    ELSE IF Len(msg) >= 2 /\ SubSeq(msg, 1, 2) = <<"/model", "SP">>
                    THEN /\ tui_model' = trim(SubSeq(msg, 3, Len(msg)))
                         /\ tui_lines' = Append(tui_lines,
                                ChatLine("system", <<"model set to: ">> \o <<tui_model'>>))
                         /\ on
                         /\ UNCHANGED <<active_stream, tui_reqs, tui_chans>>
                    ELSE IF in_progress(active_stream)
                    THEN /\ tui_lines' = Append(tui_lines,
                                ChatLine("system",
                                         <<"(streaming in progress; wait for completion)">>))
                         /\ on
                         /\ UNCHANGED <<tui_model, active_stream, tui_reqs, tui_chans>>
                    ELSE /\ tui_lines' = tui_lines \o <<ChatLine("user", msg),
                                                        ChatLine("assistant", <<>>)>>
                         /\ tui_reqs' = Append(tui_reqs,
                                               [model |-> tui_model, prompt |-> msg])
                         /\ UNCHANGED tui_model
                         /\ \/ \E items \in ProviderStreams :
                                 /\ active_stream' = Some(Len(tui_chans) + 1)
                                 /\ tui_chans' = Append(tui_chans,
                                        [msgs |-> <<>>, task |-> "run", items |-> items])
                                 /\ on
                            \/ /\ tui_pc' = "returned"
                               /\ tui_res' = "failed to start stream"
                               /\ UNCHANGED <<active_stream, tui_chans>>
    /\ UNCHANGED <<notTui, tui_raw, tui_alt>>

\* Lines 188-204: the task of stream k takes the next item of the provider's
\* stream and sends a message; a send fails once the receiver is dropped.
\* A stream with no item left and no end has stalled.
Forward(k) ==
    /\ tui_chans[k].task = "run"
    /\ tui_chans[k].items # <<>>
    /\ LET ch == tui_chans[k]
           item == Head(ch.items)
           rx == active_stream = Some(k) /\ tui_pc # "returned"
           sent(m) == IF rx THEN Append(ch.msgs, m) ELSE ch.msgs
       IN  tui_chans' = [tui_chans EXCEPT ![k] =
                IF item = "chunk"
                THEN [msgs |-> sent([tag |-> "Chunk", text |-> "x"]),
                      task |-> IF rx THEN "run" ELSE "done",
                      items |-> IF rx THEN Tail(ch.items) ELSE <<>>]
                ELSE IF item = "err"
                THEN [msgs |-> sent([tag |-> "Error", text |-> "e"]),
                      task |-> "done", items |-> <<>>]
                ELSE [msgs |-> sent([tag |-> "Done", text |-> ""]),
                      task |-> "done", items |-> <<>>]]
    /\ UNCHANGED <<notTui, tui_pc, tui_raw, tui_alt, tui_res, tui_input, tui_lines,
                   tui_model, active_stream, tui_reqs, tui_enters>>

\* Lines 95-117: a message of the active stream.
RecvMsg ==
    /\ tui_pc = "loop"
    /\ IsSome(active_stream)
    /\ LET k == Unwrap(active_stream)
           ch == tui_chans[k]
           n == Len(tui_lines)
       IN  /\ ch.msgs # <<>>
           /\ tui_chans' = [tui_chans EXCEPT ![k].msgs = Tail(ch.msgs)]
           /\ LET msg == Head(ch.msgs) IN
              IF msg.tag = "Chunk"
              THEN /\ tui_lines' =
                        IF n > 0 /\ tui_lines[n].role = "assistant"
                        THEN [tui_lines EXCEPT ![n].text = Append(@, msg.text)]
                        ELSE tui_lines
                   /\ UNCHANGED active_stream
              ELSE IF msg.tag = "Done"
              THEN active_stream' = None /\ UNCHANGED tui_lines
              ELSE /\ active_stream' = None
                   /\ tui_lines' = Append(tui_lines, ChatLine("error", <<msg.text>>))
    /\ UNCHANGED <<notTui, tui_pc, tui_raw, tui_alt, tui_res, tui_input, tui_model,
                   tui_reqs, tui_enters>>

\* Lines 121-125: after the loop.
Restore ==
    /\ tui_pc = "restore"
    /\ tui_raw' = FALSE
    /\ tui_alt' = FALSE
    /\ tui_pc' = "returned"
    /\ UNCHANGED <<notTui, tui_res, tui_input, tui_lines, tui_model, active_stream,
                   tui_reqs, tui_chans, tui_enters>>

----------------------------------------------------------------------------
(* The mcp commands on the servers file (mcp/mod.rs, cmd_mcp).  The file   *)
(* is held as the value its JSON stands for, the servers in order; a       *)
(* command runs from its load to its save in one step.                     *)

McpServerConfig(name, command, args, enabled) ==
    [name |-> name, command |-> command, args |-> args, enabled |-> enabled]

\* Mutant: no server is found to have the name.
any_named_Never(servers, name) == FALSE

\* Line 32: file.servers.iter().any(|s| s.name == name).
any_named(servers, name) == \E i \in 1..Len(servers) : servers[i].name = name

\* Lines 29-100: what cmd does to the servers loaded: the failure if any,
\* the servers afterwards, and whether they are saved.
cmd_mcp(cmd, servers) ==
    LET fail(m) == [err |-> m, servers |-> servers, save |-> FALSE]
        done(ss) == [err |-> "", servers |-> ss, save |-> TRUE]
        found == \E i \in 1..Len(servers) : servers[i].name = cmd.name
        set(e) == [i \in 1..Len(servers) |->
                    IF servers[i].name = cmd.name
                    THEN [servers[i] EXCEPT !.enabled = e]
                    ELSE servers[i]]
        kept == SelectSeq(servers, LAMBDA s : s.name # cmd.name)
    IN  IF cmd.op = "add"
        THEN IF any_named(servers, cmd.name)
             THEN fail("server already exists")
             ELSE done(Append(servers,
                              McpServerConfig(cmd.name, cmd.command, cmd.args, TRUE)))
        ELSE IF cmd.op = "list" THEN [err |-> "", servers |-> servers, save |-> FALSE]
        ELSE IF cmd.op = "remove"
        THEN IF Len(kept) = Len(servers) THEN fail("no such server") ELSE done(kept)
        ELSE IF cmd.op = "enable"
        THEN IF ~found THEN fail("no such server") ELSE done(set(TRUE))
        ELSE IF ~found THEN fail("no such server") ELSE done(set(FALSE))

\* cmd_mcp with load (125-143) and save_to (150-170): io is where the
\* filesystem fails, if it does; a file that is not there loads as no
\* servers, and the file is replaced by the rename only.
McpCommand ==
    /\ \E cmd \in [op : {"add", "list", "remove", "enable", "disable"},
                   name : {"a", "b", "c"}, command : {"x"},
                   args : {<<>>, <<"-v">>}],
          io \in {"ok", "read", "mkdir", "write", "rename"} :
        LET loaded == UnwrapOr(mcp_file, <<>>)
            r == cmd_mcp(cmd, loaded)
        IN  /\ cmd.op = "add" => Len(loaded) < MaxServers
            /\ mcp_cmd' = Some(cmd)
            /\ IF io = "read"
               THEN mcp_result' = "failed to read MCP servers file" /\ UNCHANGED mcp_file
               ELSE IF r.err # ""
               THEN mcp_result' = r.err /\ UNCHANGED mcp_file
               ELSE IF ~r.save \/ io = "ok"
               THEN /\ mcp_result' = "ok"
                    /\ mcp_file' = IF r.save THEN Some(r.servers) ELSE mcp_file
               ELSE /\ mcp_result' = "failed to " \o io
                    /\ UNCHANGED mcp_file
    /\ UNCHANGED <<notMcp, rpcVars>>

----------------------------------------------------------------------------
(* list_tools and StdioRpc (mcp/stdio.rs).  A message on the server's      *)
(* stdout is a frame that read_message cannot read ("frame"), a body that  *)
(* is not JSON ("garbage"), or a JSON value: its "id" as written ("absent" *)
(* when there is none, "s1" for the string "1"), and whether it holds a    *)
(* result, an error or neither.                                            *)

ServerMsgs ==
    {[kind |-> "frame", id |-> "absent", body |-> "neither"],
     [kind |-> "garbage", id |-> "absent", body |-> "neither"]}
    \cup [kind : {"json"}, id : {"absent", "s1", "1", "2"},
          body : {"result", "error", "neither"}]

\* Mutant: any JSON message is taken as the response.
matches_Any(v, id) == TRUE

\* Line 122: v.get("id").and_then(|x| x.as_u64()) == Some(id).
matches(v, id) ==
    LET as_u64 == IF v.id = "1" THEN Some(1) ELSE IF v.id = "2" THEN Some(2) ELSE None
    IN  as_u64 = Some(id)

\* Lines 10 and 75-98: the server is spawned; next_id is 1.
Spawn ==
    /\ lt_pc = "spawn"
    /\ \E ok \in BOOLEAN :
        IF ok
        THEN /\ next_id' = 1
             /\ rpc_open' = TRUE
             /\ lt_pc' = "initialize"
             /\ UNCHANGED lt_result
        ELSE /\ lt_pc' = "done"
             /\ lt_result' = "failed to spawn MCP server"
             /\ UNCHANGED <<next_id, rpc_open>>
    /\ UNCHANGED <<notMcp, filesVars, rq_pc, rq_id, rq_result, rpc_sent, rpc_pipe,
                   rpc_read>>

\* Lines 105-115: request(method) takes its id and writes the message; a
\* failed write is the failure of the request and of list_tools.
RequestSend ==
    /\ lt_pc \in {"initialize", "tools/list"}
    /\ rq_pc = "idle"
    /\ rq_id' = next_id
    /\ next_id' = next_id + 1
    /\ \E ok \in BOOLEAN :
        IF ok
        THEN /\ rpc_sent' = Append(rpc_sent, [id |-> next_id, method |-> lt_pc])
             /\ rq_pc' = "read"
             /\ UNCHANGED <<rq_result, lt_pc, lt_result>>
        ELSE /\ rq_result' = "failed to write"
             /\ lt_pc' = "done"
             /\ lt_result' = lt_pc \o " failed"
             /\ UNCHANGED <<rpc_sent, rq_pc>>
    /\ UNCHANGED <<notMcp, filesVars, rpc_pipe, rpc_open, rpc_read>>

\* Lines 117-138: one pass of the loop of request, with read_message
\* (156-190); and lines 26-35 of list_tools once the request has returned.
RequestRead ==
    /\ rq_pc = "read"
    /\ rpc_pipe # <<>> \/ ~rpc_open
    /\ LET v == Head(rpc_pipe)
           returns(res) ==
                /\ rq_result' = res
                /\ rq_pc' = "idle"
                /\ IF res # "ok"
                   THEN lt_pc' = "done" /\ lt_result' = lt_pc \o " failed"
                   ELSE IF lt_pc = "initialize"
                   THEN lt_pc' = "tools/list" /\ UNCHANGED lt_result
                   ELSE lt_pc' = "done" /\ lt_result' = "ok"
       IN  IF rpc_pipe = <<>>
           THEN returns("MCP server closed stdout") /\ UNCHANGED <<rpc_pipe, rpc_read>>
           ELSE /\ rpc_pipe' = Tail(rpc_pipe)
                /\ rpc_read' = Append(rpc_read, [req |-> rq_id, msg |-> v])
                /\ IF v.kind = "frame" THEN returns("bad frame")
                   ELSE IF v.kind = "garbage" THEN returns("invalid JSON-RPC")
                   ELSE IF ~matches(v, rq_id)
                   THEN UNCHANGED <<rq_result, rq_pc, lt_pc, lt_result>>
                   ELSE IF v.body = "error" THEN returns("MCP error")
                   ELSE IF v.body = "result" THEN returns("ok")
                   ELSE returns("invalid ok envelope")
    /\ UNCHANGED <<notMcp, filesVars, rq_id, next_id, rpc_sent, rpc_open>>

\* The server writes a message to its stdout.
ServerWrite ==
    /\ rpc_open
    /\ Len(rpc_read) + Len(rpc_pipe) < MaxMsgs
    /\ \E v \in ServerMsgs : rpc_pipe' = Append(rpc_pipe, v)
    /\ UNCHANGED <<notMcp, filesVars, lt_pc, lt_result, rq_pc, rq_id, rq_result,
                   next_id, rpc_sent, rpc_open, rpc_read>>

\* The server closes its stdout, or exits.
ServerClose ==
    /\ rpc_open
    /\ rpc_open' = FALSE
    /\ UNCHANGED <<notMcp, filesVars, lt_pc, lt_result, rq_pc, rq_id, rq_result,
                   next_id, rpc_sent, rpc_pipe, rpc_read>>

----------------------------------------------------------------------------
(* The specifications. *)

LoginFresh ==
    /\ dl_dc_reply = None
    /\ dl_dc = None
    /\ dl_out = <<>>
    /\ dl_expires_at = 0
    /\ poll_interval = 0
    /\ dl_last_sleep = 0
    /\ dl_prev_sleep = 0
    /\ dl_last_reply = None
    /\ dl_result = NoResult

TuiOff ==
    /\ tui_pc = "off"
    /\ tui_raw = FALSE
    /\ tui_alt = FALSE
    /\ tui_res = "none"
    /\ tui_input = <<>>
    /\ tui_lines = <<>>
    /\ tui_model = <<"gemini-1.5-flash">>
    /\ active_stream = None
    /\ tui_reqs = <<>>
    /\ tui_chans = <<>>
    /\ tui_enters = 0

FilesOff ==
    /\ mcp_file = None
    /\ mcp_cmd = None
    /\ mcp_result = "none"

RpcOff ==
    /\ lt_pc = "off"
    /\ lt_result = "none"
    /\ rq_pc = "idle"
    /\ rq_id = 0
    /\ rq_result = "none"
    /\ next_id = 0
    /\ rpc_sent = <<>>
    /\ rpc_pipe = <<>>
    /\ rpc_open = FALSE
    /\ rpc_read = <<>>

McpOff == FilesOff /\ RpcOff

LoginOff ==
    /\ dl_pc = "off"
    /\ LoginFresh

RefreshOff ==
    /\ rf_pc = "off"
    /\ rf_token = OAuthToken("", "", None, None, 0, None)
    /\ rf_valid = None
    /\ rf_checked_at = 0
    /\ rf_log0 = 0
    /\ rf_calls = 0
    /\ rf_reply = None
    /\ rf_result = NoResult

\* The token a save before this one left in the file.
OldTok == OAuthToken("at0", "Bearer", Some("s0"), Some("rt0"), 0, Some(SkewSecs))

SseOff ==
    /\ stream = <<>>
    /\ fed = 0
    /\ cut = "line"
    /\ buf = <<>>
    /\ cur_data = <<>>
    /\ events = <<>>

BridgeOff ==
    /\ br_provider = "none"
    /\ br_auth = [kind |-> "ApiKey", value |-> ""]
    /\ br_req = [model |-> "", prompt |-> "", include_directories |-> <<>>]
    /\ br_reply = None
    /\ br_result = NoResult
    /\ br_pc = "off"
    /\ br_parser = [buf |-> <<>>, cur_data |-> <<>>]
    /\ br_pending = <<>>
    /\ br_stub_i = 0
    /\ br_failed = 0
    /\ br_queue = <<>>
    /\ br_rx = "none"
    /\ br_got = <<>>
    /\ br_end = FALSE
    /\ wire_docs = 0
    /\ wire_at = "closed"
    /\ wire_buf = None

BuildOff ==
    /\ bp_pc = "off"
    /\ bp_env = [api_key |-> None, client_id |-> None]
    /\ bp_cfg = [api_key |-> None, client_id |-> None]
    /\ bp_result = NoResult

StoreOff ==
    /\ fs_dir = [p \in Paths |-> 0]
    /\ fs_data = <<>>
    /\ st_prev = None
    /\ wr_pc = [w \in Writers |-> "off"]
    /\ wr_tok = [w \in Writers |-> OldTok]
    /\ wr_fd = [w \in Writers |-> 0]
    /\ wr_off = [w \in Writers |-> 0]
    /\ wr_result = [w \in Writers |-> "none"]
    /\ wr_last = 0
    /\ rd_pc = "off"
    /\ rd_fd = 0
    /\ rd_after = {}
    /\ rd_io = "none"
    /\ rd_bytes = <<>>
    /\ rd_result = NoResult

\* cmd_login: device_login is about to run.
InitLogin ==
    /\ now = 0
    /\ http_log = <<>>
    /\ dl_pc = "start"
    /\ LoginFresh
    /\ RefreshOff
    /\ StoreOff
    /\ SseOff
    /\ BridgeOff
    /\ BuildOff
    /\ TuiOff
    /\ McpOff

NextLogin == DeviceCodeRequest \/ CheckDeadline \/ Sleep \/ PollToken

SpecLogin == InitLogin /\ [][NextLogin]_vars

\* The task is polled until it returns, and every request is answered.
FairSpecLogin ==
    /\ SpecLogin
    /\ WF_vars(DeviceCodeRequest)
    /\ WF_vars(CheckDeadline)
    /\ WF_vars(Sleep)
    /\ WF_vars(PollToken)

Tokens0 ==
    {OAuthToken("at1", "Bearer", sc, rt, oa, ei) :
        sc \in {None, Some("s1")},
        rt \in {None, Some("rt1")},
        oa \in (0..MaxObtainedAt) \cup {U64Max},
        ei \in {None, Some(0), Some(U64Max)}
               \cup {Some(e) : e \in (SkewSecs - 1)..(SkewSecs + MaxNow0 + 1)}}

\* build_provider: refresh_if_needed is about to run on a loaded token.
InitRefresh ==
    /\ now \in (0..MaxNow0) \cup {I64Max}
    /\ http_log = <<>>
    /\ LoginOff
    /\ rf_pc = "start"
    /\ rf_token \in Tokens0
    /\ rf_valid = None
    /\ rf_checked_at = 0
    /\ rf_log0 = 0
    /\ rf_calls = 1
    /\ rf_reply = None
    /\ rf_result = NoResult
    /\ StoreOff
    /\ SseOff
    /\ BridgeOff
    /\ BuildOff
    /\ TuiOff
    /\ McpOff

NextRefresh == RefreshCheck \/ RefreshExchange \/ RefreshAgain

SpecRefresh == InitRefresh /\ [][NextRefresh]_vars

\* What the token path can hold when a command starts: nothing, a token
\* record, or what somebody else left there.
TargetContents0 ==
    {None, Some(Serialize(OldTok)), Some(<<Zero>>),
     Some(SubSeq(Serialize(OldTok), 1, 4)), Some(<<OpenBrace, CloseBrace>>)}

\* What the temporary path can hold: nothing, or the rest of a save that
\* did not finish.
TmpContents0 == {None, Some(SubSeq(Serialize(OldTok), 1, 3))}

\* What a refresh of OldTok saves, and what a login saves.
RefreshedTok == OAuthToken("at1", "Bearer", None, Some("rt0"), MaxObtainedAt, Some(0))

LoginTok == OAuthToken("at2", "Bearer", Some("s1"), None, MaxObtainedAt, None)

StoreTokens ==
    {OAuthToken("at1", "Bearer", sc, rt, oa, ei) :
        sc \in {None, Some("s1")},
        rt \in {None, Some("rt1")},
        oa \in {MaxObtainedAt, U64Max},
        ei \in {None, Some(0)}}

\* The files, a reader about to call load_token, and the writers of
\* `saving` about to call save_token_atomic with a token of `toks`.
InitFiles(saving, toks, targets, tmps) ==
    /\ now = 0
    /\ http_log = <<>>
    /\ LoginOff
    /\ RefreshOff
    /\ SseOff
    /\ BridgeOff
    /\ BuildOff
    /\ TuiOff
    /\ McpOff
    /\ \E tgt \in targets, tmp \in tmps :
        /\ st_prev = tgt
        /\ fs_data = tgt \o tmp
        /\ fs_dir = [p \in Paths |->
                        IF p = TokenPath THEN Len(tgt)
                        ELSE IF IsSome(tmp) THEN Len(tgt) + 1 ELSE 0]
    /\ wr_pc = [w \in Writers |-> IF w \in saving THEN "start" ELSE "off"]
    /\ wr_tok \in [Writers -> toks]
    /\ \A w \in Writers \ saving : wr_tok[w] = OldTok
    /\ \A v, w \in saving : v # w => wr_tok[v] # wr_tok[w]
    /\ wr_fd = [w \in Writers |-> 0]
    /\ wr_off = [w \in Writers |-> 0]
    /\ wr_result = [w \in Writers |-> "none"]
    /\ wr_last = 0
    /\ rd_pc = "start"
    /\ rd_fd = 0
    /\ rd_after = {}
    /\ rd_io = "none"
    /\ rd_bytes = <<>>
    /\ rd_result = NoResult

NextStore ==
    \/ \E w \in Writers :
            SaveMkdir(w) \/ SaveOpen(w) \/ SaveWrite(w) \/ SaveRename(w) \/ Crash(w)
    \/ LoadOpen
    \/ LoadRead

\* One command saves a token while another may load it.
InitStore == InitFiles({1}, StoreTokens \cup {OldTok}, TargetContents0, TmpContents0)

SpecStore == InitStore /\ [][NextStore]_vars

\* Two commands save a token at the same time.
InitStore2 ==
    InitFiles(Writers, {RefreshedTok, LoginTok}, {None, Some(Serialize(OldTok))}, {None})

SpecStore2 == InitStore2 /\ [][NextStore]_vars

\* stream_chat is about to be called, on the google provider with one of
\* its credentials or on the stub.
InitBridge ==
    /\ now = 0
    /\ http_log = <<>>
    /\ LoginOff
    /\ RefreshOff
    /\ StoreOff
    /\ SseOff
    /\ BuildOff
    /\ TuiOff
    /\ McpOff
    /\ \/ /\ br_provider = "google"
          /\ br_auth \in {[kind |-> "ApiKey", value |-> "k"],
                          [kind |-> "BearerToken", value |-> "at1"],
                          [kind |-> "BearerToken", value |-> "at\n1"]}
          /\ br_req = [model |-> "m", prompt |-> "hi", include_directories |-> <<>>]
       \/ /\ br_provider = "stub"
          /\ br_auth = [kind |-> "ApiKey", value |-> ""]
          /\ br_req \in [model : {"m"}, prompt : {"", "hi"},
                         include_directories : {<<>>, <<"d">>, <<"d", "e">>}]
    /\ br_reply = None
    /\ br_result = NoResult
    /\ br_pc = "start"
    /\ br_parser = [buf |-> <<>>, cur_data |-> <<>>]
    /\ br_pending = <<>>
    /\ br_stub_i = 0
    /\ br_failed = 0
    /\ br_queue = <<>>
    /\ br_rx = "none"
    /\ br_got = <<>>
    /\ br_end = FALSE
    /\ wire_docs = 0
    /\ wire_at = "closed"
    /\ wire_buf = None

NextBridge ==
    \/ StartStream
    \/ ServerSend
    \/ TaskNext
    \/ TaskEvent
    \/ StubHeader
    \/ StubSend
    \/ Recv
    \/ DropStream

SpecBridge == InitBridge /\ [][NextBridge]_vars

\* build_provider is about to run for the google provider: the environment,
\* the configuration, and what the token path holds.
InitBuild ==
    /\ now = 0
    /\ http_log = <<>>
    /\ LoginOff
    /\ RefreshOff
    /\ SseOff
    /\ BridgeOff
    /\ TuiOff
    /\ McpOff
    /\ \E tgt \in {None, Some(<<Zero>>)}
                  \cup {Some(Serialize(t)) :
                          t \in {OldTok, LoginTok,
                                 OAuthToken("at3", "Bearer", None, None, 0, Some(0))}} :
        /\ st_prev = tgt
        /\ fs_data = tgt
        /\ fs_dir = [p \in Paths |-> IF p = TokenPath THEN Len(tgt) ELSE 0]
    /\ wr_pc = [w \in Writers |-> "off"]
    /\ wr_tok = [w \in Writers |-> OldTok]
    /\ wr_fd = [w \in Writers |-> 0]
    /\ wr_off = [w \in Writers |-> 0]
    /\ wr_result = [w \in Writers |-> "none"]
    /\ wr_last = 0
    /\ rd_pc = "off"
    /\ rd_fd = 0
    /\ rd_after = {}
    /\ rd_io = "none"
    /\ rd_bytes = <<>>
    /\ rd_result = NoResult
    /\ bp_pc = "start"
    /\ bp_env \in [api_key : {None, Some(""), Some("k")}, client_id : {None, Some("cid")}]
    /\ bp_cfg \in [api_key : {None, Some("c")}, client_id : {None}]
    /\ bp_result = NoResult

NextBuild ==
    \/ BuildResolve
    \/ LoadOpen
    \/ LoadRead
    \/ BuildLoaded
    \/ RefreshCheck
    \/ RefreshExchange
    \/ BuildRefreshed
    \/ SaveMkdir(1)
    \/ SaveOpen(1)
    \/ SaveWrite(1)
    \/ SaveRename(1)
    \/ BuildSaved

SpecBuild == InitBuild /\ [][NextBuild]_vars

\* run_tui has built its provider and is about to enable raw mode.
InitTui ==
    /\ now = 0
    /\ http_log = <<>>
    /\ LoginOff
    /\ RefreshOff
    /\ StoreOff
    /\ SseOff
    /\ BridgeOff
    /\ BuildOff
    /\ McpOff
    /\ tui_pc = "start"
    /\ tui_raw = FALSE
    /\ tui_alt = FALSE
    /\ tui_res = "none"
    /\ tui_input = <<>>
    /\ tui_lines = <<>>
    /\ tui_model = <<"gemini-1.5-flash">>
    /\ active_stream = None
    /\ tui_reqs = <<>>
    /\ tui_chans = <<>>
    /\ tui_enters = 0

NextTui ==
    \/ EnableRaw
    \/ EnterScreen
    \/ NewTerminal
    \/ Tick
    \/ HandleKey
    \/ \E k \in 1..Len(tui_chans) : Forward(k)
    \/ RecvMsg
    \/ Restore

SpecTui == InitTui /\ [][NextTui]_vars

\* The servers file before the first command: none, or one with no server
\* or with one that serde's default leaves disabled.
InitServers ==
    /\ now = 0
    /\ http_log = <<>>
    /\ LoginOff
    /\ RefreshOff
    /\ StoreOff
    /\ SseOff
    /\ BridgeOff
    /\ BuildOff
    /\ TuiOff
    /\ RpcOff
    /\ mcp_file \in {None, Some(<<>>),
                     Some(<<McpServerConfig("a", "x", <<>>, FALSE)>>)}
    /\ mcp_cmd = None
    /\ mcp_result = "none"

SpecServers == InitServers /\ [][McpCommand]_vars

\* list_tools is called on a server.
InitRpc ==
    /\ now = 0
    /\ http_log = <<>>
    /\ LoginOff
    /\ RefreshOff
    /\ StoreOff
    /\ SseOff
    /\ BridgeOff
    /\ BuildOff
    /\ TuiOff
    /\ FilesOff
    /\ lt_pc = "spawn"
    /\ lt_result = "none"
    /\ rq_pc = "idle"
    /\ rq_id = 0
    /\ rq_result = "none"
    /\ next_id = 0
    /\ rpc_sent = <<>>
    /\ rpc_pipe = <<>>
    /\ rpc_open = FALSE
    /\ rpc_read = <<>>

NextRpc ==
    \/ Spawn
    \/ RequestSend
    \/ RequestRead
    \/ ServerWrite
    \/ ServerClose

SpecRpc == InitRpc /\ [][NextRpc]_vars

\* A new parser and a response body of at most MaxLines lines.
InitSse ==
    /\ now = 0
    /\ http_log = <<>>
    /\ LoginOff
    /\ RefreshOff
    /\ StoreOff
    /\ BridgeOff
    /\ BuildOff
    /\ TuiOff
    /\ McpOff
    /\ stream \in UNION {[1..n -> 1..Len(SseLines)] : n \in 0..MaxLines}
    /\ fed = 0
    /\ cut = "line"
    /\ buf = SseNew.buf
    /\ cur_data = SseNew.cur_data
    /\ events = <<>>

NextSse == Feed

SpecSse == InitSse /\ [][NextSse]_vars

----------------------------------------------------------------------------
(* Properties of device_login, checked under SpecLogin / FairSpecLogin. *)

\* The kind of the reply to the latest token request ("none": no request yet).
LastKind == IF IsSome(dl_last_reply) THEN ReplyKind(Unwrap(dl_last_reply)) ELSE "none"

\* The description the latest token reply carried ("" when it had none).
LastDesc ==
    IF IsSome(dl_last_reply)
    THEN UnwrapOr(Unwrap(dl_last_reply).body.error_description, "")
    ELSE ""

\* Token requests sent so far.
TokenRequests == Len(SelectSeq(http_log, LAMBDA q : q.url = "token_url"))

\* After the latest reply the loop is still running, or it was ended by the
\* deadline test alone.
GoesOnPolling ==
    \/ dl_pc \in {"loop", "sleep", "poll"} /\ dl_result = NoResult
    \/ /\ dl_pc = "done"
       /\ dl_result = DeadlineFailure
       /\ DeadlinePassed(now, dl_expires_at)

\* C1: after a slow_down reply the loop goes on (only the deadline test can
\* end it), poll_interval is 5 s more than the sleep before that poll, and
\* the sleep before the next poll is exactly 5 s longer than that sleep.
C1_SlowDownAddsFive ==
    LastKind = "slow_down" =>
        /\ GoesOnPolling
        /\ dl_pc \in {"loop", "sleep"} => poll_interval = dl_last_sleep + 5
        /\ dl_pc = "poll" => dl_last_sleep = dl_prev_sleep + 5

C1_Witness ==
    /\ dl_pc = "poll"
    /\ LastKind = "slow_down"
    /\ dl_prev_sleep >= 1
    /\ dl_last_sleep = dl_prev_sleep + 5
    /\ TokenRequests >= 1

\* C2: after an authorization_pending reply the loop goes on (only the
\* deadline test can end it), poll_interval is what it was, and the sleep
\* before the next poll is as long as the sleep before that poll.
C2_PendingKeepsInterval ==
    LastKind = "authorization_pending" =>
        /\ GoesOnPolling
        /\ dl_pc \in {"loop", "sleep"} => poll_interval = dl_last_sleep
        /\ dl_pc = "poll" => dl_last_sleep = dl_prev_sleep

C2_Witness ==
    /\ dl_pc = "poll"
    /\ LastKind = "authorization_pending"
    /\ dl_prev_sleep >= 1
    /\ dl_last_sleep = dl_prev_sleep
    /\ TokenRequests >= 1

\* C3: an expired_token reply ends device_login with the failure the
\* deadline test gives, and no request is sent after it.
C3_ExpiredTokenEnds ==
    /\ [](LastKind = "expired_token" =>
            dl_pc = "done" /\ dl_result = DeadlineFailure)
    /\ [][LastKind = "expired_token" => http_log' = http_log]_vars

C3_Witness ==
    /\ LastKind = "expired_token"
    /\ dl_pc = "done"
    /\ dl_result = DeadlineFailure
    /\ TokenRequests >= 2

\* C4: an access_denied reply ends device_login with the access-denied
\* failure; a reply with any other error code than the four known ones ends
\* it with the oauth-error failure carrying that code and the description.
C4_DeniedAndUnknownCodes ==
    /\ LastKind = "access_denied" =>
            dl_pc = "done" /\ dl_result = Err(MsgAccessDenied, "", "")
    /\ \A c \in ErrorCodes \ {"authorization_pending", "slow_down",
                                "expired_token", "access_denied"} :
            LastKind = c =>
                dl_pc = "done" /\ dl_result = Err(MsgOAuthError, c, LastDesc)

C4_Witness ==
    /\ LastKind = "invalid_grant"
    /\ LastDesc = "why"
    /\ dl_result = Err(MsgOAuthError, "invalid_grant", "why")

\* C5: device_login has returned after every reply but authorization_pending
\* and slow_down, and a token request that follows a reply follows one of
\* these two.
C5_OnlyPendingAndSlowDownRetried ==
    /\ [](LastKind \notin {"none", "authorization_pending", "slow_down"} =>
            dl_pc = "done" /\ dl_result # NoResult)
    /\ [][(LastKind # "none" /\ http_log' # http_log) =>
            LastKind \in {"authorization_pending", "slow_down"}]_vars

C5_Witness ==
    /\ LastKind = "not_json"
    /\ dl_pc = "done"
    /\ dl_result = Err(MsgTokenEndpointFailed, "", "")
    /\ TokenRequests >= 2

\* C6: device_login returns whatever the server answers, and when every
\* token request was answered authorization_pending or slow_down it returns
\* the device-code-expired failure, after the deadline.
C6_LoopTerminates ==
    /\ <>(dl_pc = "done")
    /\ []((dl_pc = "done" /\ IsSome(dl_dc)
            /\ LastKind \in {"none", "authorization_pending", "slow_down"}) =>
            (dl_result = DeadlineFailure /\ now > dl_expires_at))

C6_Witness ==
    /\ dl_pc = "done"
    /\ LastKind = "slow_down"
    /\ TokenRequests >= 2
    /\ dl_result = DeadlineFailure
    /\ now > dl_expires_at

\* C7: a device-code response with at least one of the three URL fields is
\* accepted, and the URL shown is verification_uri_complete when present,
\* else verification_uri when present, else verification_url.
C7_UrlPreference ==
    LET body == Unwrap(dl_dc_reply).body IN
    (/\ IsSome(dl_dc_reply)
     /\ Unwrap(dl_dc_reply).transport = "ok"
     /\ Unwrap(dl_dc_reply).status_ok
     /\ body.json
     /\ \/ IsSome(body.verification_uri_complete)
        \/ IsSome(body.verification_uri)
        \/ IsSome(body.verification_url)
     /\ dl_result # Err("io error", "", ""))
    => /\ Len(dl_out) >= 2
       /\ dl_out[2] =
              IF IsSome(body.verification_uri_complete)
              THEN Unwrap(body.verification_uri_complete)
              ELSE IF IsSome(body.verification_uri)
              THEN Unwrap(body.verification_uri)
              ELSE Unwrap(body.verification_url)

----------------------------------------------------------------------------
(* Properties of is_valid_for and refresh_if_needed, checked under         *)
(* SpecRefresh.                                                            *)

\* now + 30 < obtained_at + expires_in, or no expires_in; in the integers.
WithinLifetime(tok, t) ==
    IsSome(tok.expires_in) => t + 30 < tok.obtained_at + Unwrap(tok.expires_in)

\* C8: for a token with expires_in, is_valid_for(30 s) is true exactly when
\* now + 30 < obtained_at + expires_in.
C8_ValidIffBeforeSkew ==
    (IsSome(rf_valid) /\ IsSome(rf_token.expires_in)) =>
        (Unwrap(rf_valid) <=>
            rf_checked_at + 30 < rf_token.obtained_at + Unwrap(rf_token.expires_in))

C8_Witness ==
    /\ IsSome(rf_valid)
    /\ IsSome(rf_token.expires_in)
    /\ ~Unwrap(rf_valid)
    /\ rf_checked_at + 30 = rf_token.obtained_at + Unwrap(rf_token.expires_in)

\* C9: refresh_if_needed on a valid token (any token without expires_in
\* included) returns the token it was given and sends no request.
C9_ValidTokenUntouched ==
    (rf_pc \in {"exchange", "done"} /\ WithinLifetime(rf_token, rf_checked_at)) =>
        /\ rf_pc = "done"
        /\ rf_result = Ok(rf_token)
        /\ Len(http_log) = rf_log0

C9_Witness ==
    /\ rf_pc = "done"
    /\ ~IsSome(rf_token.expires_in)
    /\ IsSome(rf_token.refresh_token)
    /\ now = I64Max
    /\ rf_result = Ok(rf_token)
    /\ http_log = <<>>

\* C10: refresh_if_needed on a token that is not valid and has a
\* refresh_token sends exactly one request, a POST to the token endpoint
\* with grant_type=refresh_token, whatever the reply.
C10_ExactlyOneRefreshRequest ==
    (/\ rf_pc \in {"exchange", "done"}
     /\ ~WithinLifetime(rf_token, rf_checked_at)
     /\ IsSome(rf_token.refresh_token)) =>
        /\ rf_pc = "exchange" => Len(http_log) = rf_log0
        /\ rf_pc = "done" =>
            /\ Len(http_log) = rf_log0 + 1
            /\ http_log[Len(http_log)].url = "token_url"
            /\ <<"grant_type", "refresh_token">> \in http_log[Len(http_log)].form
            /\ <<"refresh_token", Unwrap(rf_token.refresh_token)>>
                   \in http_log[Len(http_log)].form

C10_Witness ==
    /\ rf_pc = "done"
    /\ ~WithinLifetime(rf_token, rf_checked_at)
    /\ IsSome(rf_token.refresh_token)
    /\ rf_result = Err("refresh failed", "", "")
    /\ Len(http_log) = rf_log0 + 1

\* C11: refresh_if_needed on a token that is not valid and has no
\* refresh_token returns the refresh-unavailable failure and sends no request.
C11_NoRefreshTokenFails ==
    (/\ rf_pc \in {"exchange", "done"}
     /\ ~WithinLifetime(rf_token, rf_checked_at)
     /\ ~IsSome(rf_token.refresh_token)) =>
        /\ rf_pc = "done"
        /\ rf_result = Err(MsgRefreshUnavailable, "", "")
        /\ Len(http_log) = rf_log0

C11_Witness ==
    /\ rf_pc = "done"
    /\ ~WithinLifetime(rf_token, rf_checked_at)
    /\ ~IsSome(rf_token.refresh_token)
    /\ rf_result = Err(MsgRefreshUnavailable, "", "")
    /\ http_log = <<>>

\* The refresh request of this call was answered with a token.
RefreshSucceeded ==
    /\ rf_pc = "done"
    /\ IsSome(rf_reply)
    /\ Unwrap(rf_reply).transport = "ok"
    /\ Unwrap(rf_reply).status_ok
    /\ IsSome(ParseTokenSuccess(Unwrap(rf_reply).body))

\* C12: after a successful refresh whose response has no refresh_token the
\* token returned has the refresh_token of the token passed in, the
\* access_token, token_type, scope and expires_in of the response, and the
\* clock as obtained_at; so the refresh_token survives refreshes in a row.
C12_RefreshTokenKept ==
    (RefreshSucceeded /\ ~IsSome(Unwrap(rf_reply).body.refresh_token)) =>
        LET body == Unwrap(rf_reply).body IN
        /\ IsSome(rf_token.refresh_token)
        /\ rf_result =
              Ok(OAuthToken(Unwrap(body.access_token), Unwrap(body.token_type),
                            body.scope, rf_token.refresh_token, now,
                            body.expires_in))

C12_Witness ==
    /\ RefreshSucceeded
    /\ ~IsSome(Unwrap(rf_reply).body.refresh_token)
    /\ rf_calls = 2
    /\ Len(http_log) = 2
    /\ Unwrap(rf_result.token).refresh_token = Some("rt1")
    /\ Unwrap(rf_result.token).access_token = "at2"
    /\ Unwrap(rf_result.token).obtained_at = now

\* C13: after a successful refresh whose response has a refresh_token the
\* token returned carries that refresh_token.
C13_NewRefreshTokenTaken ==
    (RefreshSucceeded /\ IsSome(Unwrap(rf_reply).body.refresh_token)) =>
        Unwrap(rf_result.token).refresh_token = Unwrap(rf_reply).body.refresh_token

\* What the token path holds (None: no file).
TargetContent ==
    IF fs_dir[TokenPath] = 0 THEN None ELSE Some(fs_data[fs_dir[TokenPath]])

\* load_token has read the file to its end.
LoadedFile == rd_pc = "done" /\ rd_io = "ok"

\* C14: with one writer, in every state of save_token_atomic, the states
\* after a crash between two file operations included, the token path
\* holds what it held before the save (nothing, or the previous token) or
\* the complete new token; a load_token that runs during the save never
\* reads anything else.
C14_NeverPartial ==
    /\ TargetContent \in {st_prev, Some(Serialize(wr_tok[1]))}
    /\ LoadedFile => Some(rd_bytes) \in {st_prev, Some(Serialize(wr_tok[1]))}

C14_Witness ==
    /\ wr_pc[1] = "crashed"
    /\ wr_off[1] \in 1..(Len(Serialize(wr_tok[1])) - 1)
    /\ wr_tok[1] # OldTok
    /\ st_prev = Some(Serialize(OldTok))
    /\ TargetContent = st_prev
    /\ LoadedFile
    /\ rd_bytes = Serialize(OldTok)

\* C15: with two writers the token path never holds a partial or mixed
\* token, and once both have returned it holds the complete token of the
\* writer whose rename came last.
C15_LastWriterWins ==
    /\ TargetContent \in {st_prev} \cup {Some(Serialize(wr_tok[w])) : w \in Writers}
    /\ (\A w \in Writers : wr_pc[w] = "done" /\ wr_result[w] = "ok") =>
            TargetContent = Some(Serialize(wr_tok[wr_last]))

\* C16: a load_token that starts after save_token_atomic(path, t) returned
\* Ok and reads the file returns Ok(Some(t)), t equal in all six fields.
C16_RoundTrip ==
    (rd_pc = "done" /\ 1 \in rd_after /\ rd_io # "other") =>
        rd_result = Ok(wr_tok[1])

C16_Witness ==
    /\ rd_pc = "done"
    /\ 1 \in rd_after
    /\ rd_io = "ok"
    /\ wr_tok[1].scope = None
    /\ wr_tok[1].refresh_token = Some("rt1")
    /\ wr_tok[1].expires_in = None
    /\ wr_tok[1].obtained_at = U64Max
    /\ rd_result = Ok(wr_tok[1])

\* The contents that are a token record.
TokenRecords == {Serialize(t) : t \in StoreTokens \cup {OldTok}}

\* C17: load_token returns Ok(None) when the file does not exist, an error
\* for every other failure to read it, and an error when what it read is
\* not a token record.
C17_LoadFailures ==
    rd_pc = "done" =>
        /\ rd_io = "not_found" => rd_result = Absent
        /\ rd_io = "other" => rd_result.tag = "err"
        /\ (rd_io = "ok" /\ rd_bytes \notin TokenRecords) =>
                rd_result = Err("failed to parse token JSON", "", "")

C17_Witness ==
    /\ rd_pc = "done"
    /\ rd_io = "not_found"
    /\ rd_result = Absent
    /\ st_prev = None
    /\ wr_pc[1] = "rename"

\* The bytes of the body given to the parser so far.
FedBytes == SubSeq(Bytes(stream), 1, fed)

\* How many lines of the body the parser has been given to their end.
WholeLines ==
    LET ns == {n \in 0..Len(stream) : Len(Bytes(SubSeq(stream, 1, n))) <= fed} IN
    CHOOSE n \in ns : \A m \in ns : m <= n

IsData(e) == e.tag = "Data"
IsErr(e) == e.tag = "Err"
NotErr(e) == e.tag # "Err"

\* C18: whatever the fragments the bytes came in, the events returned so
\* far, in order, are the events one call with all these bytes returns, and
\* the parser is the parser after that one call.
C18_FragmentsDoNotMatter ==
    LET whole == push(SseNew, FedBytes) IN
    /\ events = whole.out
    /\ buf = whole.buf
    /\ cur_data = whole.cur_data

\* "data: b" CR | LF LF: the latest fragment began between the carriage
\* return and the newline of a data: line, and the event came out once.
C18_Witness ==
    /\ stream = <<2, 3>>
    /\ fed = Len(Bytes(stream))
    /\ cut = "cr"
    /\ events = <<DataEvent(<<"b">>)>>

\* What the lines of SseLines are, and the value of each data: line with
\* one leading space removed, written out by hand.
LineKind == <<"data", "data", "blank", "blank", "other", "data", "bad", "data">>

LinePayload ==
    << <<"a">>, <<"b">>, <<>>, <<>>, <<>>, <<"SP", "xC3", "xA9">>, <<>>, <<>> >>

\* The Data events of the lines ls: at each blank line one event for the
\* data: lines since the blank line before, if there are any, their
\* values joined by a newline.  joined is the values so far, any whether
\* there is one.
RECURSIVE DataEvents(_, _, _)
DataEvents(ls, joined, any) ==
    IF ls = <<>> THEN <<>>
    ELSE IF LineKind[Head(ls)] = "blank"
    THEN (IF any THEN <<DataEvent(joined)>> ELSE <<>>)
            \o DataEvents(Tail(ls), <<>>, FALSE)
    ELSE IF LineKind[Head(ls)] = "data"
    THEN DataEvents(Tail(ls),
                    IF any THEN joined \o <<"LF">> \o LinePayload[Head(ls)]
                    ELSE LinePayload[Head(ls)],
                    TRUE)
    ELSE DataEvents(Tail(ls), joined, any)

\* C19: the Data events returned are one for each blank line that ends a
\* run of k >= 1 data: lines, its payload the k values (one leading space
\* removed from each) joined by a newline, none added at the end; cur_data
\* is empty once the blank line is parsed.
C19_DataLinesJoined ==
    /\ SelectSeq(events, IsData) = DataEvents(SubSeq(stream, 1, WholeLines), <<>>, FALSE)
    /\ (WholeLines > 0 /\ LineKind[stream[WholeLines]] = "blank") => cur_data = <<>>

\* "data:  e'" "data:" blank: two data: lines, one with two spaces, one
\* with no value.
C19_Witness ==
    /\ stream = <<6, 8, 3>>
    /\ fed = Len(Bytes(stream))
    /\ events = <<DataEvent(<<"SP", "xC3", "xA9", "LF">>)>>
    /\ cur_data = <<>>

\* The lines of ls that are UTF-8.
RECURSIVE GoodLines(_)
GoodLines(ls) ==
    IF ls = <<>> THEN <<>>
    ELSE (IF LineKind[Head(ls)] = "bad" THEN <<>> ELSE <<Head(ls)>>)
            \o GoodLines(Tail(ls))

\* C20: each line that is not UTF-8 gives one Err and nothing else: buf,
\* cur_data and the other events are those of a parser that was given the
\* same bytes without these lines.
C20_BadLineOnlyReported ==
    LET whole == SubSeq(stream, 1, WholeLines)
        tail == Drop(FedBytes, Len(Bytes(whole)))
        ref == push(SseNew, Bytes(GoodLines(whole)) \o tail)
    IN  /\ buf = ref.buf
        /\ cur_data = ref.cur_data
        /\ SelectSeq(events, NotErr) = ref.out
        /\ Len(SelectSeq(events, IsErr)) = Len(whole) - Len(GoodLines(whole))

\* "data:a", a line that is not UTF-8, then the beginning of a line: the
\* data of before the bad line and the bytes after it are still there.
C20_Witness ==
    /\ stream = <<1, 7, 5>>
    /\ WholeLines = 2
    /\ buf = <<":">>
    /\ cur_data = <<"a", "LF">>
    /\ events = <<ErrEvent>>

----------------------------------------------------------------------------
(* Claims about stream_chat (SpecBridge). *)

\* The items the task has sent and the consumer has not dropped, in order.
Delivered == br_got \o br_queue

\* The texts of the first n data events with text of the body.
SentTexts(n) == [i \in 1..n |-> <<"xy", "y", "x">>[(i % 3) + 1]]

\* The texts of the chunks of a sequence of items.
ChunkTexts(items) ==
    LET oks == SelectSeq(items, LAMBDA e : e.tag = "Ok") IN
    [i \in 1..Len(oks) |-> oks[i].text]

\* C21: on the google provider an Err item is the last item the task sends
\* and the task has returned after it, so that the consumer is told the end
\* next; and once the body has failed and the task has returned, the last
\* item is an Err and before it are the chunks of all the data events with
\* text that came before the failure.
C21_FirstFailureEnds ==
    br_provider = "google" =>
        /\ \A i \in 1..Len(Delivered) :
                Delivered[i].tag = "Err" => i = Len(Delivered) /\ br_pc = "done"
        /\ br_end => br_pc = "done" /\ br_queue = <<>>
        /\ (wire_at = "failed" /\ br_pc = "done" /\ br_rx = "open") =>
                /\ Len(Delivered) = wire_docs + 1
                /\ Delivered[Len(Delivered)].tag = "Err"
                /\ ChunkTexts(Delivered) = SentTexts(wire_docs)

C21_Witness ==
    /\ br_provider = "google"
    /\ wire_at = "failed"
    /\ br_end
    /\ Len(br_got) = 2
    /\ br_got[1] = [tag |-> "Ok", text |-> "y"]
    /\ br_got[2] = [tag |-> "Err", text |-> "failed to parse SSE JSON"]

\* C22: on the google provider, while the consumer holds the stream, the
\* chunks it has received and those waiting for it are, in order, the texts
\* of the first data events with text of the body, one chunk each; they are
\* all of them once the task has handled everything the server has sent,
\* and the consumer has received them all when it is told the end.
C22_ChunksInWireOrder ==
    (br_provider = "google" /\ br_rx = "open") =>
        /\ Len(ChunkTexts(Delivered)) <= wire_docs
        /\ ChunkTexts(Delivered) = SentTexts(Len(ChunkTexts(Delivered)))
        /\ (wire_buf = None /\ br_pc \in {"next", "done"}) =>
                ChunkTexts(Delivered) = SentTexts(wire_docs)
        /\ br_end => ChunkTexts(br_got) = SentTexts(wire_docs)

C22_Witness ==
    /\ br_provider = "google"
    /\ wire_at = "ended"
    /\ br_end
    /\ ChunkTexts(br_got) = <<"y", "x", "xy", "y">>


\* The task has an item in hand that it has not sent yet.
TaskHasItem ==
    \/ br_pc = "events" /\ Handle(Head(br_pending)).send # None
    \/ br_pc \in {"stub_header", "stub_parts"}

\* The task takes what the server has sent.
TaskTakesBytes ==
    wire_buf # None /\ Unwrap(wire_buf).kind = "bytes" /\ wire_buf' = None

\* C23 as stated: the queue holds at most 64 (google) or 32 (stub) items,
\* and while it is full the task takes no bytes from the network.
C23_FullQueueStopsReading ==
    [][/\ Len(br_queue) <= (IF br_provider = "google" THEN 64 ELSE 32)
       /\ (br_rx = "open" /\ Len(br_queue) = (IF br_provider = "google" THEN 64 ELSE 32))
            => ~TaskTakesBytes]_vars

\* C23, amended: the queue holds at most 64 (google) or 32 (stub) items; and
\* while it is full and the task has a further item to send, the task is
\* suspended in that send: it does nothing and takes no bytes from the
\* network in any step that does not remove an item from the queue.
C23_FullQueueSuspendsSend ==
    [][/\ Len(br_queue) <= (IF br_provider = "google" THEN 64 ELSE 32)
       /\ (/\ br_rx = "open"
           /\ Len(br_queue) = (IF br_provider = "google" THEN 64 ELSE 32)
           /\ TaskHasItem
           /\ Len(br_queue') >= Len(br_queue))
            => (taskVars' = taskVars /\ br_queue' = br_queue /\ ~TaskTakesBytes)]_vars

C23_Witness ==
    /\ br_provider = "google"
    /\ br_rx = "open"
    /\ Len(br_queue) = 64
    /\ br_got = <<>>
    /\ TaskHasItem
    /\ wire_buf # None


\* C24: once the consumer has dropped the stream, the first send of the task
\* fails and the task returns without another send: no task has more than
\* one failed send, and a task with a failed send has returned.
C24_OneFailedSend ==
    /\ br_failed <= 1
    /\ br_failed = 1 => br_pc = "done"

\* The task has a step to take with what the server has sent already.
TaskCanGoOn ==
    \/ br_pc \in {"events", "stub_header", "stub_parts"}
    \/ br_pc = "next" /\ wire_buf # None

\* C25: after the consumer has dropped the stream the task returns, whatever
\* the server does next, also when it sends nothing more: a task that has
\* not returned is never left waiting for the server alone.
C25_TaskEndsAfterDrop == br_rx = "dropped" => (br_pc = "done" \/ TaskCanGoOn)


\* C26: when the generation endpoint answers with a status that is not a
\* success, stream_chat returns the failure with that status and body, and
\* there is no channel, no task and no chunk, then and ever after.
C26_BadStatusShortCircuits ==
    (/\ br_provider = "google"
     /\ br_reply # None
     /\ Unwrap(br_reply).transport = "ok"
     /\ Unwrap(br_reply).status \notin {"200", "204"}) =>
        /\ br_result = [tag |-> "err", msg |-> "Gemini API error",
                        code |-> Unwrap(br_reply).status,
                        desc |-> Unwrap(br_reply).body, token |-> None]
        /\ br_rx = "none"
        /\ br_pc = "none"
        /\ br_queue = <<>> /\ br_got = <<>> /\ ~br_end
        /\ wire_buf = None

C26_Witness ==
    /\ br_provider = "google"
    /\ br_reply = Some([transport |-> "ok", status |-> "404", body |-> "quota"])
    /\ br_result.tag = "err"

\* The text of each document: the text parts of its first candidate, joined.
DocText ==
    [J1 |-> "xy", J2 |-> "y", J3 |-> "x", J4 |-> "", J5 |-> "", J6 |-> "",
     J7 |-> "", J8 |-> ""]

\* C27: when the task handles a data event, it sends one chunk with the text
\* parts of the document's first candidate joined in order, and no chunk
\* when there are none or they are empty; no chunk has an empty text.
C27_FirstCandidateText ==
    [][/\ \A i \in 1..Len(Delivered) :
            (br_provider = "google" /\ Delivered[i].tag = "Ok") => Delivered[i].text # ""
       /\ (/\ br_pc = "events"
           /\ br_rx = "open"
           /\ Head(br_pending).tag = "Data"
           /\ Len(Head(br_pending).data) = 1
           /\ Head(br_pending).data[1] \in DOMAIN DocText
           /\ br_pending' # br_pending) =>
                LET text == DocText[Head(br_pending).data[1]] IN
                br_queue' = IF text = "" THEN br_queue
                            ELSE Append(br_queue, [tag |-> "Ok", text |-> text])]_vars

C27_Witness ==
    /\ br_provider = "google"
    /\ br_pc = "events"
    /\ Head(br_pending) = [tag |-> "Data", data |-> <<"J8">>]
    /\ ChunkTexts(br_got) = <<"y">>
    /\ br_queue = <<>>

\* The pairs of a query or of a header map that have the name k.
Named(pairs, k) == SelectSeq(pairs, LAMBDA p : p[1] = k)

\* C28: a request of the google provider has one credential: with an API key
\* one key parameter and no Authorization header, with a bearer token one
\* Authorization: Bearer header and no key parameter; and it has alt=sse.
C28_OneCredential ==
    \A i \in 1..Len(http_log) :
        LET q == http_log[i] IN
        /\ Named(q.url.query, "alt") = << <<"alt", "sse">> >>
        /\ br_auth.kind = "ApiKey" =>
            /\ Named(q.url.query, "key") = << <<"key", br_auth.value>> >>
            /\ Named(q.headers, "authorization") = <<>>
        /\ br_auth.kind = "BearerToken" =>
            /\ Named(q.url.query, "key") = <<>>
            /\ Named(q.headers, "authorization")
                = << <<"authorization", "Bearer " \o br_auth.value>> >>

C28_Witness ==
    /\ br_auth = [kind |-> "BearerToken", value |-> "at1"]
    /\ Len(http_log) = 1
    /\ br_result.tag = "ok"

\* The chunks of the stub for the request.
StubExpected ==
    LET dirs == IF br_req.include_directories = <<>> THEN "[]"
                ELSE IF br_req.include_directories = <<"d">> THEN "[\"d\"]"
                ELSE "[\"d\", \"e\"]"
    IN  <<"[stub provider]\nmodel: m\ninclude_directories: " \o dirs \o "\n\n",
          "You said: ",
          br_req.prompt,
          "\n\n",
          "(This is streaming scaffolding; Phase A does not call Gemini APIs yet.)">>

\* C29: the stub sends no request, and what it has sent is always the
\* beginning of the same five chunks; the consumer that is told the end has
\* received the five.
C29_StubDeterministic ==
    br_provider = "stub" =>
        /\ http_log = <<>>
        /\ \A i \in 1..Len(Delivered) : Delivered[i].tag = "Ok"
        /\ br_rx = "open" =>
            /\ Len(Delivered) <= 5
            /\ ChunkTexts(Delivered) = SubSeq(StubExpected, 1, Len(Delivered))
        /\ br_end => ChunkTexts(br_got) = StubExpected

C29_Witness ==
    /\ br_provider = "stub"
    /\ br_req.prompt = "hi"
    /\ br_req.include_directories = <<"d", "e">>
    /\ br_end
    /\ Len(br_got) = 5


----------------------------------------------------------------------------
(* Claims about build_provider (SpecBuild). *)

\* C30: with an API key, of the environment first and of the configuration
\* else, the build returns that key and load_token, refresh_if_needed and
\* save_token_atomic are never called: the files are as they were and no
\* request is sent.  Without a key, when load_token finds no file, the build
\* fails with the message that names GEMINI_API_KEY and gemini login, and
\* no request has been sent.
C30_KeyFirstThenToken ==
    LET key == IF bp_env.api_key # None THEN bp_env.api_key ELSE bp_cfg.api_key IN
    /\ key # None =>
        /\ rd_pc = "off" /\ rf_pc = "off" /\ \A w \in Writers : wr_pc[w] = "off"
        /\ fs_data = st_prev
        /\ fs_dir = [p \in Paths |-> IF p = TokenPath THEN Len(st_prev) ELSE 0]
        /\ http_log = <<>>
        /\ bp_pc = "done" =>
            bp_result = [tag |-> "ok", msg |-> "", code |-> "", desc |-> "",
                         token |-> <<[kind |-> "ApiKey", value |-> key[1]]>>]
    /\ (key = None /\ rd_result = Absent /\ bp_pc = "done") =>
        /\ bp_result.tag = "err"
        /\ bp_result.msg
            = "No API key or OAuth token found. Set GEMINI_API_KEY or run gemini login."
        /\ http_log = <<>>
        /\ rf_pc = "off" /\ \A w \in Writers : wr_pc[w] = "off"

C30_Witness ==
    /\ bp_pc = "done"
    /\ bp_env.api_key = None
    /\ bp_cfg.api_key = Some("c")
    /\ st_prev = Some(Serialize(OldTok))
    /\ bp_result.tag = "ok"


----------------------------------------------------------------------------
(* More claims about device_login (SpecLogin). *)

\* C31: poll_interval starts as the interval of the device-code response,
\* 5 when there is none and 1 when it is 0; from then on it is at least 1,
\* and no step makes it smaller.
C31_IntervalFlooredAndGrowing ==
    [][/\ (dl_pc = "start" /\ dl_pc' = "loop") =>
            LET given == Unwrap(dl_dc_reply').body.interval IN
            poll_interval' = IF given = None THEN 5
                             ELSE IF given[1] = 0 THEN 1
                             ELSE given[1]
       /\ dl_pc' \in {"loop", "sleep", "poll"} => poll_interval' >= 1
       /\ poll_interval' >= poll_interval]_vars

C31_Witness ==
    /\ dl_pc = "sleep"
    /\ dl_dc # None
    /\ Unwrap(dl_dc).interval = Some(0)
    /\ poll_interval = 6
    /\ dl_last_sleep = 1

\* C32 as stated: a token request is sent no later than the deadline plus
\* the poll interval of that request.
C32_RequestBeforeDeadlinePlusInterval ==
    dl_pc = "poll" => now <= dl_expires_at + poll_interval

\* C32, amended: the task comes to a token request only from the sleep, which
\* began with the deadline not passed and lasted the poll interval at least;
\* a token request is sent only there, with the interval just slept.
C32_SleepBeforeRequest ==
    [][/\ (dl_pc' = "poll" /\ dl_pc # "poll") =>
            /\ dl_pc = "sleep"
            /\ now <= dl_expires_at
            /\ now' >= now + poll_interval
            /\ dl_last_sleep' = poll_interval
       /\ (dl_pc # "start" /\ Len(http_log') > Len(http_log)) =>
            /\ dl_pc = "poll"
            /\ dl_last_sleep = poll_interval]_vars

C32_Witness ==
    /\ dl_pc = "poll"
    /\ TokenRequests = 1
    /\ now = dl_expires_at + poll_interval + 1


----------------------------------------------------------------------------
(* More claims about SseParser (SpecSse). *)

IsOther(e) == e.tag = "Other"
NotOther(e) == e.tag # "Other"

\* The lines of ls that are not lines of another field.
RECURSIVE FieldLines(_)
FieldLines(ls) ==
    IF ls = <<>> THEN <<>>
    ELSE (IF LineKind[Head(ls)] = "other" THEN <<>> ELSE <<Head(ls)>>)
            \o FieldLines(Tail(ls))

\* Lines that are not empty and do not start with "data:": an event, id and
\* retry field, a comment, and "data" with no colon, with either line end.
OtherLines ==
    { <<"e", "v", "e", "n", "t", ":", "x", "LF">>,
      <<"i", "d", ":", "1", "CR", "LF">>,
      <<"r", "e", "t", "r", "y", ":", "1", "LF">>,
      <<":", "LF">>,
      <<"d", "a", "t", "a", "LF">>,
      <<"d", "a", "t", "a", "SP", ":", "x", "CR", "LF">> }

\* C33: each line of another field gives one Other and nothing else: buf,
\* cur_data and the other events are those of a parser that was given the
\* same bytes without these lines; the same of any line of OtherLines given
\* to the parser at the end of a line; and a blank line given to a parser
\* with no data gives no event.
C33_OtherLineOnlyReported ==
    LET whole == SubSeq(stream, 1, WholeLines)
        tail == Drop(FedBytes, Len(Bytes(whole)))
        ref == push(SseNew, Bytes(FieldLines(whole)) \o tail)
        here == [buf |-> buf, cur_data |-> cur_data, out |-> <<>>]
    IN  /\ buf = ref.buf
        /\ cur_data = ref.cur_data
        /\ SelectSeq(events, NotOther) = ref.out
        /\ Len(SelectSeq(events, IsOther)) = Len(whole) - Len(FieldLines(whole))
        /\ buf = <<>> =>
            \A l \in OtherLines :
                push(here, l) = [buf |-> <<>>, cur_data |-> cur_data,
                                 out |-> <<OtherEvent>>]
        /\ (buf = <<>> /\ cur_data = <<>>) =>
            \A l \in {<<"LF">>, <<"CR", "LF">>} : push(here, l) = here

\* "data:a", a comment, "data: b": one Other, and the blank line that comes
\* next gives one Data event of both values.
C33_Witness ==
    /\ stream = <<1, 5, 2>>
    /\ fed = Len(Bytes(stream))
    /\ events = <<OtherEvent>>
    /\ push([buf |-> buf, cur_data |-> cur_data, out |-> <<>>], <<"LF">>).out
        = <<DataEvent(<<"a", "LF", "b">>)>>


----------------------------------------------------------------------------
(* More claims about build_provider (SpecBuild). *)

\* C34: once refresh_if_needed has failed, the build ends with that failure,
\* save_token_atomic is never called, and the directory and the files are
\* what they were when the build began.
C34_RefreshFailureKeepsFile ==
    (rf_pc = "done" /\ rf_result.tag = "err") =>
        /\ bp_pc \in {"refresh", "done"}
        /\ bp_pc = "done" => bp_result = rf_result
        /\ wr_pc[1] = "off"
        /\ fs_data = st_prev
        /\ fs_dir = [p \in Paths |-> IF p = TokenPath THEN 1 ELSE 0]

\* The token endpoint was asked and the refresh failed; the build has ended.
C34_Witness ==
    /\ bp_pc = "done"
    /\ rf_result.tag = "err"
    /\ bp_result = rf_result
    /\ Len(http_log) = 1
    /\ fs_data = Some(Serialize(OldTok))


----------------------------------------------------------------------------
(* More claims about stream_chat (SpecBridge). *)

\* C35: when the body has ended the task returns and sends nothing for the
\* data lines or the part of a line the parser still holds: the items are
\* the chunks of the data events that a blank line closed, with no Err, and
\* the consumer is told the end after them.
C35_UnclosedDataDropped ==
    (br_provider = "google" /\ wire_at = "ended" /\ wire_buf = None) =>
        /\ br_pc = "done"
        /\ br_pending = <<>>
        /\ br_rx = "open" =>
            /\ Len(Delivered) = wire_docs
            /\ \A i \in 1..Len(Delivered) : Delivered[i].tag = "Ok"
            /\ ChunkTexts(Delivered) = SentTexts(wire_docs)
        /\ br_end => br_queue = <<>>

\* One event, then a data: line and the start of another line; the body
\* ends, and the consumer gets the one chunk and the end.
C35_Witness ==
    /\ br_provider = "google"
    /\ wire_at = "ended"
    /\ br_end
    /\ br_parser.cur_data = <<"J3", "LF">>
    /\ br_parser.buf = DataPrefix \o <<"J1">>
    /\ br_got = <<[tag |-> "Ok", text |-> "y"]>>


----------------------------------------------------------------------------
(* Claims about run_tui (SpecTui). *)

\* What is typed is a message: not empty, and none of the commands.
IsMessage(msg) ==
    /\ msg # <<>>
    /\ msg # <<"/quit">>
    /\ msg # <<"/clear">>
    /\ ~(Len(msg) >= 2 /\ msg[1] = "/model" /\ msg[2] = "SP")

StreamNotice == ChatLine("system", <<"(streaming in progress; wait for completion)">>)

\* C36: stream_chat is called only while no stream is active; Enter on a
\* message while one is active appends the notice to lines and changes
\* nothing else of the chat; active_stream changes from a stream only to
\* None, and only by taking that stream's Done or Error from its channel;
\* no task of another stream than the active one is running, and none at
\* all while no stream is active.
C36_OneStreamAtATime ==
    [][/\ Len(tui_reqs') > Len(tui_reqs) => active_stream = None
       /\ (active_stream # None /\ tui_enters' > tui_enters
                /\ IsMessage(trim(tui_input))) =>
            /\ tui_lines' = Append(tui_lines, StreamNotice)
            /\ UNCHANGED <<tui_reqs, tui_chans, active_stream, tui_model, tui_pc>>
       /\ (active_stream # None /\ active_stream' # active_stream) =>
            LET k == Unwrap(active_stream) IN
            /\ active_stream' = None
            /\ tui_chans[k].msgs # <<>>
            /\ Head(tui_chans[k].msgs).tag \in {"Done", "Error"}
            /\ tui_chans'[k].msgs = Tail(tui_chans[k].msgs)
       /\ \A k \in 1..Len(tui_chans') :
            tui_chans'[k].task = "run" => active_stream' = Some(k)]_vars

\* A first message, a second one refused while the answer to the first was
\* coming, and after its Done a third, which started the second stream.
C36_Witness ==
    /\ Len(tui_reqs) = 2
    /\ active_stream = Some(2)
    /\ \E i \in 1..Len(tui_lines) : tui_lines[i] = ChatLine("assistant", <<"x">>)
    /\ \E i \in 1..Len(tui_lines) : tui_lines[i] = StreamNotice
    /\ tui_lines[Len(tui_lines)].role = "assistant"

\* C37: when run_tui has returned by the quit key or command, by a failure
\* of draw or by a failure of stream_chat in handle_key, raw mode is off and
\* the alternate screen is left.
C37_TerminalRestored ==
    (tui_pc = "returned" /\ tui_res \in {"ok", "draw failed", "failed to start stream"})
        => (~tui_raw /\ ~tui_alt)


----------------------------------------------------------------------------
(* Claims about the mcp commands (SpecServers). *)

\* No two servers of the file have the same name.
UniqueNames(file) ==
    \A i, j \in 1..Len(UnwrapOr(file, <<>>)) :
        Unwrap(file)[i].name = Unwrap(file)[j].name => i = j

\* C38: after every command the names of the file are unique; an add of a
\* name that is in the file, and a remove, enable or disable of a name that
\* is not, fail, and a command that fails leaves the file as it was.
C38_NamesStayUnique ==
    [][LET cmd == Unwrap(mcp_cmd')
           before == UnwrapOr(mcp_file, <<>>)
           names == {before[i].name : i \in 1..Len(before)}
       IN  /\ UniqueNames(mcp_file')
           /\ (cmd.op = "add" /\ cmd.name \in names) => mcp_result' # "ok"
           /\ (cmd.op \in {"remove", "enable", "disable"} /\ cmd.name \notin names)
                => mcp_result' # "ok"
           /\ mcp_result' # "ok" => mcp_file' = mcp_file]_vars

\* Servers b and a, b disabled since; the add of a second a has failed.
C38_Witness ==
    /\ mcp_file # None
    /\ Len(Unwrap(mcp_file)) = 2
    /\ Unwrap(mcp_file)[1] = McpServerConfig("b", "x", <<>>, FALSE)
    /\ Unwrap(mcp_file)[2].name = "a"
    /\ mcp_cmd = Some([op |-> "add", name |-> "a", command |-> "x", args |-> <<"-v">>])
    /\ mcp_result = "server already exists"


----------------------------------------------------------------------------
(* Claims about list_tools (SpecRpc). *)

\* The ids of the requests written are 1, 2, ... in this order.
IdsFromOne == \A i \in 1..Len(rpc_sent) : rpc_sent[i].id = i

\* The message read in this step, if one is.
ReadsOne == Len(rpc_read') = Len(rpc_read) + 1
LastRead == rpc_read'[Len(rpc_read')].msg

\* The JSON message v carries the number id as its id.
HasId(v, id) == v.kind = "json" /\ v.id = <<"0", "1", "2">>[id + 1]

\* tools/list is written with id 2, after a message with id 1 and a result
\* was read by the first request.
ToolsListAfterInit ==
    \A i \in 1..Len(rpc_sent) :
        rpc_sent[i].method = "tools/list" =>
            /\ i = 2
            /\ rpc_sent[1].method = "initialize"
            /\ \E j \in 1..Len(rpc_read) :
                /\ rpc_read[j].req = 1
                /\ HasId(rpc_read[j].msg, 1)
                /\ rpc_read[j].msg.body = "result"

\* C39 as stated: ids start at 1 and increase; a request returns only in a
\* step that reads a message with the id of the request, and goes on after
\* any other message; tools/list is sent after the response to initialize.
C39_ReturnsOnlyOnMatch ==
    [][/\ IdsFromOne'
       /\ (rq_pc = "read" /\ rq_pc' # "read") => (ReadsOne /\ HasId(LastRead, rq_id))
       /\ (ReadsOne /\ ~HasId(LastRead, rq_id)) => rq_pc' = "read"
       /\ ToolsListAfterInit']_vars

\* C39, amended: ids start at 1 and increase; a request returns a response
\* (a result, an MCP error, or the failure to decode either) only in a step
\* that reads a message with its id; it goes on after any JSON message with
\* another id or none; every other return is the failure of the write, of
\* read_message (stdout closed, bad frame) or of the JSON parse, and fails
\* list_tools; tools/list is sent after the response to initialize.
C39_ResponseOnlyOnMatch ==
    [][/\ IdsFromOne'
       /\ (rq_pc = "read" /\ rq_pc' # "read") =>
            \/ /\ ReadsOne /\ HasId(LastRead, rq_id)
               /\ rq_result' \in {"ok", "MCP error", "invalid ok envelope"}
               /\ rq_result' = "ok" <=> LastRead.body = "result"
            \/ /\ rq_result' \in {"MCP server closed stdout", "bad frame",
                                  "invalid JSON-RPC"}
               /\ ReadsOne => LastRead.kind # "json"
               /\ lt_pc' = "done"
               /\ lt_result' # "ok"
       /\ (ReadsOne /\ LastRead.kind = "json" /\ ~HasId(LastRead, rq_id)) =>
            /\ rq_pc' = "read"
            /\ UNCHANGED <<rq_result, lt_pc, lt_result, rpc_sent, next_id>>
       /\ ToolsListAfterInit']_vars

\* The first request skipped a response with id 2 and returned on the one
\* with id 1; the second returned on another with id 2.
C39_Witness ==
    /\ lt_pc = "done"
    /\ lt_result = "ok"
    /\ rpc_sent = <<[id |-> 1, method |-> "initialize"], [id |-> 2, method |-> "tools/list"]>>
    /\ Len(rpc_read) = 3
    /\ rpc_read[1] = [req |-> 1, msg |-> [kind |-> "json", id |-> "2", body |-> "result"]]
    /\ rpc_read[2].req = 1
    /\ rpc_read[3].req = 2


====
